---- MODULE Spec2Model ----
(***************************************************************************)
(* Weighted Effect Synthesis Engine of the Process-SEM pipeline:           *)
(*   3_Analysis/4_Plots_Code/plot_deep_cuts.py      weighted statistics    *)
(*   3_Analysis/4_Plots_Code/plot_descriptives.py   weighted statistics    *)
(*   3_Analysis/3_Tables_Code/build_plain_language_summary.py  lookups     *)
(*   webapp/scripts/transform-results.py            extractor and deriver  *)
(*                                                                         *)
(* Every function of the engine is a call: the state records which         *)
(* function ran last (call), the arguments it was given (args), what it    *)
(* returned or raised (ret) and what it wrote to standard output (out).    *)
(*                                                                         *)
(* Numbers.  A float is modelled by the exact rational it stands for,      *)
(* [n |-> numerator, d |-> denominator] in lowest terms with d > 0.  NaN   *)
(* (numpy's missing marker) and None are distinct markers.  A square root  *)
(* is kept symbolic: [sqrt |-> q] is the non-negative root of q.  An       *)
(* exception is the value [raise |-> <exception name>].                    *)
(***************************************************************************)
EXTENDS Integers, Sequences, FiniteSets, TLC

VARIABLES call, args, ret, out

vars == <<call, args, ret, out>>

----------------------------------------------------------------------------
(* Bounds of the explored inputs *)

MaxLen == 3
MaxVal == 1
MaxW == 2

----------------------------------------------------------------------------
(* Markers *)

NaN == [nan |-> TRUE]
None == [none |-> TRUE]
Raise(e) == [raise |-> e]
ZeroDivisionError == Raise("ZeroDivisionError")

----------------------------------------------------------------------------
(* Exact arithmetic standing for float arithmetic *)

Abs(i) == IF i < 0 THEN -i ELSE i

RECURSIVE GCD(_, _)
GCD(a, b) == IF b = 0 THEN a ELSE GCD(b, a % b)

Rat(num, den) ==
    LET g == GCD(Abs(num), Abs(den))
        s == IF den < 0 THEN -1 ELSE 1
    IN  [n |-> (s * num) \div g, d |-> (s * den) \div g]

ToRat(i) == [n |-> i, d |-> 1]
(* sums go over the least common denominator and products cancel first, so
   that intermediate integers stay small *)
RatAdd(p, q) ==
    LET g == GCD(p.d, q.d)
    IN  Rat(p.n * (q.d \div g) + q.n * (p.d \div g), (p.d \div g) * q.d)
RatNeg(p) == [n |-> -p.n, d |-> p.d]
RatSub(p, q) == RatAdd(p, RatNeg(q))
RatMul(p, q) ==
    LET g1 == GCD(Abs(p.n), q.d)
        g2 == GCD(Abs(q.n), p.d)
    IN  Rat((p.n \div g1) * (q.n \div g2), (p.d \div g2) * (q.d \div g1))
RatDiv(p, q) == RatMul(p, Rat(q.d, q.n))
RatLeq(p, q) == p.n * q.d <= q.n * p.d
RatLt(p, q) == p.n * q.d < q.n * p.d
IsRat(v) == DOMAIN v = {"n", "d"}
IsRaise(v) == DOMAIN v = {"raise"}
IsSqrt(v) == DOMAIN v = {"sqrt"}

(* numpy: a[mask] keeps the entries whose mask bit is set, in order *)
RECURSIVE Masked(_, _)
Masked(a, mask) ==
    IF a = <<>> THEN <<>>
    ELSE IF Head(mask) THEN <<Head(a)>> \o Masked(Tail(a), Tail(mask))
         ELSE Masked(Tail(a), Tail(mask))

(* numpy: ~np.isnan(a) *)
NotNan(a) == [i \in 1..Len(a) |-> a[i] # NaN]
MaskAnd(m1, m2) == [i \in 1..Len(m1) |-> m1[i] /\ m2[i]]
RECURSIVE MaskSum(_)
MaskSum(mask) ==
    IF mask = <<>> THEN 0 ELSE (IF Head(mask) THEN 1 ELSE 0) + MaskSum(Tail(mask))

(* numpy: np.sum over an array of numbers *)
RECURSIVE NpSum(_)
NpSum(a) == IF a = <<>> THEN ToRat(0) ELSE RatAdd(Head(a), NpSum(Tail(a)))

Times(a, b) == [i \in 1..Len(a) |-> RatMul(a[i], b[i])]

(* an average that takes the weights to sum to N: sum(a*w)/len(a) *)
NpAverageOverCount(a, w) ==
    LET scl == NpSum(w)
    IN  IF scl.n = 0 THEN ZeroDivisionError
        ELSE RatDiv(NpSum(Times(a, w)), ToRat(Len(a)))

(* numpy: np.average(a, weights=w) raises ZeroDivisionError when the weights
   sum to zero, else sum(a*w)/sum(w) *)
NpAverage(a, w) ==
    LET scl == NpSum(w)
    IN  IF scl.n = 0 THEN ZeroDivisionError
        ELSE RatDiv(NpSum(Times(a, w)), scl)

(* numpy: np.sqrt(q) *)
NpSqrt(q) == [sqrt |-> q]

----------------------------------------------------------------------------
(* plot_deep_cuts.py: PSW-weighted statistics helper functions *)

(* weighted_mean with an empty mask reported as zero *)
weighted_mean_zero_when_empty(x, w) ==
    LET mask == MaskAnd(NotNan(x), NotNan(w))
    IN  IF MaskSum(mask) = 0 THEN ToRat(0)
        ELSE NpAverage(Masked(x, mask), Masked(w, mask))

weighted_mean(x, w) ==
    LET mask == MaskAnd(NotNan(x), NotNan(w))
    IN  IF MaskSum(mask) = 0 THEN NaN
        ELSE NpAverage(Masked(x, mask), Masked(w, mask))

(* weighted_std dividing by the count, as if the weights summed to N *)
weighted_std_weights_sum_to_n(x, w) ==
    LET mask == MaskAnd(NotNan(x), NotNan(w))
        xm == Masked(x, mask)
        wm == Masked(w, mask)
        avg == NpAverage(xm, wm)
        dev == [i \in 1..Len(xm) |-> RatMul(RatSub(xm[i], avg), RatSub(xm[i], avg))]
    IN  IF MaskSum(mask) = 0 THEN NaN
        ELSE IF IsRaise(avg) THEN avg
        ELSE NpSqrt(RatDiv(NpSum(Times(dev, wm)), ToRat(Len(xm))))

weighted_std(x, w) ==
    LET mask == MaskAnd(NotNan(x), NotNan(w))
        xm == Masked(x, mask)
        wm == Masked(w, mask)
        avg == NpAverage(xm, wm)
        dev == [i \in 1..Len(xm) |-> RatMul(RatSub(xm[i], avg), RatSub(xm[i], avg))]
    IN  IF MaskSum(mask) = 0 THEN NaN
        ELSE IF IsRaise(avg) THEN avg
        ELSE NpSqrt(NpAverage(dev, wm))

(* weighted_n_eff taking the raw count for the effective sample size *)
weighted_n_eff_raw_count(w) ==
    LET wv == Masked(w, NotNan(w))
    IN  ToRat(Len(wv))

(* 0/0 on numpy floats is nan (a warning, not an exception) *)
weighted_n_eff(w) ==
    LET wv == Masked(w, NotNan(w))
        s == NpSum(wv)
        s2 == NpSum(Times(wv, wv))
    IN  IF Len(wv) = 0 THEN ToRat(0)
        ELSE IF s2.n = 0 THEN NaN
        ELSE RatDiv(RatMul(s, s), s2)

(* std / np.sqrt(n_eff), with nan propagating through the division *)
DivBySqrt(std, n) ==
    IF IsRaise(std) THEN std
    ELSE IF std = NaN \/ n = NaN THEN NaN
    ELSE NpSqrt(RatDiv(std.sqrt, n))

(* weighted_sem undefined only below one effective observation *)
weighted_sem_below_one(x, w) ==
    LET mask == MaskAnd(NotNan(x), NotNan(w))
        n_eff == weighted_n_eff(Masked(w, mask))
    IN  IF n_eff # NaN /\ RatLt(n_eff, ToRat(1)) THEN NaN
        ELSE DivBySqrt(weighted_std(x, w), n_eff)

weighted_sem(x, w) ==
    LET mask == MaskAnd(NotNan(x), NotNan(w))
        n_eff == weighted_n_eff(Masked(w, mask))
    IN  IF n_eff # NaN /\ RatLeq(n_eff, ToRat(1)) THEN NaN
        ELSE DivBySqrt(weighted_std(x, w), n_eff)

----------------------------------------------------------------------------
(* plot_descriptives.py: PSW-weighted statistics helper functions *)

descriptives_weighted_mean(x, w) ==
    LET mask == MaskAnd(NotNan(x), NotNan(w))
    IN  IF MaskSum(mask) = 0 THEN NaN
        ELSE NpAverage(Masked(x, mask), Masked(w, mask))

descriptives_weighted_std(x, w) ==
    LET mask == MaskAnd(NotNan(x), NotNan(w))
        xm == Masked(x, mask)
        wm == Masked(w, mask)
        avg == NpAverage(xm, wm)
        dev == [i \in 1..Len(xm) |-> RatMul(RatSub(xm[i], avg), RatSub(xm[i], avg))]
    IN  IF MaskSum(mask) = 0 THEN NaN
        ELSE IF IsRaise(avg) THEN avg
        ELSE NpSqrt(NpAverage(dev, wm))

descriptives_weighted_sem(x, w) ==
    LET mask == MaskAnd(NotNan(x), NotNan(w))
        n_eff == MaskSum(mask)
    IN  IF n_eff <= 1 THEN NaN
        ELSE DivBySqrt(descriptives_weighted_std(x, w), ToRat(n_eff))

----------------------------------------------------------------------------
(* Inputs of the weighted statistics: aligned arrays of one observation
   table, entries possibly missing, weights non-negative *)

Values == {ToRat(i) : i \in 0..MaxVal} \cup {NaN}
Weights == {ToRat(i) : i \in 0..MaxW} \cup {NaN}
Arrays(S, n) == [1..n -> S]
Lengths == 0..MaxLen

----------------------------------------------------------------------------
(* The calls *)

(* A call is made on freshly loaded inputs: the functions keep nothing
   between calls, so every call is explored from the initial state *)
Init ==
    /\ call = "none"
    /\ args = None
    /\ ret = None
    /\ out = <<>>

CallWeightedMean ==
    /\ call = "none"
    /\ \E n \in Lengths : \E x \in Arrays(Values, n), w \in Arrays(Weights, n) :
        /\ call' = "weighted_mean"
        /\ args' = [x |-> x, w |-> w]
        /\ ret' = weighted_mean(x, w)
        /\ out' = <<>>

CallWeightedStd ==
    /\ call = "none"
    /\ \E n \in Lengths : \E x \in Arrays(Values, n), w \in Arrays(Weights, n) :
        /\ call' = "weighted_std"
        /\ args' = [x |-> x, w |-> w]
        /\ ret' = weighted_std(x, w)
        /\ out' = <<>>

CallWeightedNEff ==
    /\ call = "none"
    /\ \E n \in Lengths : \E w \in Arrays(Weights, n) :
        /\ call' = "weighted_n_eff"
        /\ args' = [w |-> w]
        /\ ret' = weighted_n_eff(w)
        /\ out' = <<>>

CallWeightedSem ==
    /\ call = "none"
    /\ \E n \in Lengths : \E x \in Arrays(Values, n), w \in Arrays(Weights, n) :
        /\ call' = "weighted_sem"
        /\ args' = [x |-> x, w |-> w]
        /\ ret' = weighted_sem(x, w)
        /\ out' = <<>>

CallDescriptivesWeightedMean ==
    /\ call = "none"
    /\ \E n \in Lengths : \E x \in Arrays(Values, n), w \in Arrays(Weights, n) :
        /\ call' = "descriptives.weighted_mean"
        /\ args' = [x |-> x, w |-> w]
        /\ ret' = descriptives_weighted_mean(x, w)
        /\ out' = <<>>

CallDescriptivesWeightedStd ==
    /\ call = "none"
    /\ \E n \in Lengths : \E x \in Arrays(Values, n), w \in Arrays(Weights, n) :
        /\ call' = "descriptives.weighted_std"
        /\ args' = [x |-> x, w |-> w]
        /\ ret' = descriptives_weighted_std(x, w)
        /\ out' = <<>>

CallDescriptivesWeightedSem ==
    /\ call = "none"
    /\ \E n \in Lengths : \E x \in Arrays(Values, n), w \in Arrays(Weights, n) :
        /\ call' = "descriptives.weighted_sem"
        /\ args' = [x |-> x, w |-> w]
        /\ ret' = descriptives_weighted_sem(x, w)
        /\ out' = <<>>

NextMoments ==
    \/ CallWeightedMean
    \/ CallWeightedStd
    \/ CallWeightedNEff
    \/ CallWeightedSem
    \/ CallDescriptivesWeightedMean
    \/ CallDescriptivesWeightedStd
    \/ CallDescriptivesWeightedSem

SpecMoments == Init /\ [][NextMoments]_vars

(* The calls of one function family at a time *)
NextMean == CallWeightedMean \/ CallDescriptivesWeightedMean
SpecMean == Init /\ [][NextMean]_vars

NextNEff == CallWeightedNEff \/ CallWeightedSem
SpecNEff == Init /\ [][NextNEff]_vars

NextSem == CallWeightedSem \/ CallDescriptivesWeightedSem
SpecSem == Init /\ [][NextSem]_vars

----------------------------------------------------------------------------
(* transform-results.py: parameter table extractor *)

MaxRows == 3

Some(v) == [some |-> v]
IsNone(v) == DOMAIN v = {"none"}

(* a label cell that pandas read as missing *)
NaNLabel == "<nan>"

KEY_PATHS == <<"a1", "a1z", "a2", "a2z", "b1", "b2", "c", "cz", "g1", "g2", "g3">>

RECURSIVE Pow10(_)
Pow10(k) == IF k = 0 THEN 1 ELSE 10 * Pow10(k - 1)

(* Python: round(v, nd), to the nearest multiple of 10^-nd, a tie going to
   the even multiple *)
Round(v, nd) ==
    LET scaled == RatMul(v, ToRat(Pow10(nd)))
        f == scaled.n \div scaled.d
        r == scaled.n % scaled.d
        k == IF 2 * r < scaled.d THEN f
             ELSE IF 2 * r > scaled.d THEN f + 1
             ELSE IF f % 2 = 0 THEN f ELSE f + 1
    IN  Rat(k, Pow10(nd))

Range(seq) == {seq[i] : i \in 1..Len(seq)}

(* round(float(row[col]), 4) if pd.notna(row[col]) else None *)
RoundedOrNone(v) == IF v # NaN THEN Round(v, 4) ELSE None

(* the path record built from one row *)
PathOf(row) ==
    [id |-> row.label, estimate |-> RoundedOrNone(row.est), se |-> RoundedOrNone(row.se)]

IsStructural(row) == row.op = "~" /\ row.label # NaNLabel /\ row.label # ""

RECURSIVE AppendWanted(_, _)
AppendWanted(structural, active_keys) ==
    IF structural = <<>> THEN <<>>
    ELSE IF Head(structural).label \notin Range(active_keys)
         THEN AppendWanted(Tail(structural), active_keys)
         ELSE <<PathOf(Head(structural))>> \o AppendWanted(Tail(structural), active_keys)

extract_key_paths(params, key_paths) ==
    LET structural == SelectSeq(params, IsStructural)
        active_keys == IF ~IsNone(key_paths) THEN key_paths.some ELSE KEY_PATHS
    IN  IF params = <<>> THEN <<>>
        ELSE AppendWanted(structural, active_keys)

----------------------------------------------------------------------------
(* build_plain_language_summary.py: lookup in the bootstrap results table *)

(* df[df['parameter'] == param] *)
RowsWhereParameter(df, param) == SelectSeq(df, LAMBDA r : r.parameter = param)

(* get_effect_row taking the first row of the table once a match exists *)
get_effect_row_unfiltered(df, param) ==
    LET row == IF IsNone(df) THEN <<>> ELSE RowsWhereParameter(df.some, param)
    IN  IF IsNone(df) \/ df.some = <<>> THEN None
        ELSE IF row = <<>> THEN None
        ELSE df.some[1]

get_effect_row(df, param) ==
    LET row == IF IsNone(df) THEN <<>> ELSE RowsWhereParameter(df.some, param)
    IN  IF IsNone(df) \/ df.some = <<>> THEN None
        ELSE IF row = <<>> THEN None
        ELSE row[1]

----------------------------------------------------------------------------
(* Inputs of the extractor: the lavaan parameter table (label, op, est, se)
   and the bootstrap results table (parameter, est) *)

Cell(k) == Rat(k, 100000)
ParamLabels == {"a1", "a2z", "", NaNLabel}
ParamOps == {"~", ":="}
ParamCells == {[est |-> Cell(14), se |-> Cell(26)],
               [est |-> Cell(16), se |-> NaN],
               [est |-> NaN, se |-> Cell(14)]}
ParamRows ==
    {[label |-> l, op |-> o, est |-> c.est, se |-> c.se] :
        l \in ParamLabels, o \in ParamOps, c \in ParamCells}
KeyPathArgs == {None, Some(<<"a1">>)}

BootRows == {[parameter |-> q, est |-> Cell(e)] : q \in {"a1", "total_z_mid"}, e \in {14, 16}}
BootParams == {"a1", "total_z_mid", "cz"}

CallExtractKeyPaths ==
    /\ call = "none"
    /\ \E n \in 0..MaxRows : \E params \in Arrays(ParamRows, n), key_paths \in KeyPathArgs :
        /\ call' = "extract_key_paths"
        /\ args' = [params |-> params, key_paths |-> key_paths]
        /\ ret' = extract_key_paths(params, key_paths)
        /\ out' = <<>>

CallGetEffectRowNoTable ==
    /\ call = "none"
    /\ \E param \in BootParams :
        /\ call' = "get_effect_row"
        /\ args' = [df |-> None, param |-> param]
        /\ ret' = get_effect_row(None, param)
        /\ out' = <<>>

CallGetEffectRow ==
    /\ call = "none"
    /\ \E n \in 0..MaxRows : \E df \in Arrays(BootRows, n), param \in BootParams :
        /\ call' = "get_effect_row"
        /\ args' = [df |-> Some(df), param |-> param]
        /\ ret' = get_effect_row(Some(df), param)
        /\ out' = <<>>

NextTable ==
    \/ CallExtractKeyPaths
    \/ CallGetEffectRowNoTable
    \/ CallGetEffectRow

SpecTable == Init /\ [][NextTable]_vars

NextLookup == CallGetEffectRowNoTable \/ CallGetEffectRow
SpecLookup == Init /\ [][NextLookup]_vars

----------------------------------------------------------------------------
(* transform-results.py: dose-conditional effect deriver *)

MaxCoef == 1
MaxSe == 1

Threshold == 12
DoseMin == 0
DoseMax == 80
DoseStep == 5

RatAbs(q) == [n |-> Abs(q.n), d |-> q.d]

(* list(range(0, 81, 5)) *)
dose_range == [i \in 1..((DoseMax - DoseMin) \div DoseStep + 1) |-> DoseMin + (i - 1) * DoseStep]

(* get_path: the first record with that id, else None *)
RECURSIVE get_path(_, _)
get_path(paths, label) ==
    IF paths = <<>> THEN None
    ELSE IF Head(paths).id = label THEN Head(paths)
    ELSE get_path(Tail(paths), label)

(* a coefficient that is not there defaulted to zero *)
FieldOrZero(p, field) == IF ~IsNone(p) /\ ~IsNone(p[field]) THEN p[field] ELSE ToRat(0)

(* p[field] if p and p[field] is not None else None *)
FieldOrNone(p, field) == IF ~IsNone(p) /\ ~IsNone(p[field]) THEN p[field] ELSE None

Coefficients(main_paths) ==
    [distress |->
        [main |-> FieldOrNone(get_path(main_paths, "a1"), "estimate"),
         moderation |-> FieldOrNone(get_path(main_paths, "a1z"), "estimate"),
         se |-> FieldOrNone(get_path(main_paths, "a1"), "se")],
     engagement |->
        [main |-> FieldOrNone(get_path(main_paths, "a2"), "estimate"),
         moderation |-> FieldOrNone(get_path(main_paths, "a2z"), "estimate"),
         se |-> FieldOrNone(get_path(main_paths, "a2"), "se")],
     adjustment |->
        [main |-> FieldOrNone(get_path(main_paths, "c"), "estimate"),
         moderation |-> FieldOrNone(get_path(main_paths, "cz"), "estimate"),
         se |-> FieldOrNone(get_path(main_paths, "c"), "se")]]

(* the two loops that fill `missing` *)
RECURSIVE MissingOf(_, _, _, _)
MissingOf(main_paths, labels, field, suffix) ==
    IF labels = <<>> THEN <<>>
    ELSE LET path == get_path(main_paths, Head(labels))
         IN  (IF IsNone(path) \/ IsNone(path[field]) THEN <<Head(labels) \o suffix>> ELSE <<>>)
             \o MissingOf(main_paths, Tail(labels), field, suffix)

Missing(main_paths) ==
    MissingOf(main_paths, <<"a1", "a1z", "a2", "a2z", "c", "cz">>, "estimate", "")
    \o MissingOf(main_paths, <<"a1", "a2", "c">>, "se", "_se")

(* dose_units = (dose - 12) / 10 *)
DoseUnits(dose) == Rat(dose - Threshold, 10)

(* an effect computed against the grid origin instead of the threshold *)
EffectAtFromOrigin(coef, dose) ==
    RatAdd(coef.main, RatMul(Rat(dose, 10), coef.moderation))

(* coef["main"] + dose_units * coef["moderation"] *)
EffectAt(coef, dose) ==
    RatAdd(coef.main, RatMul(DoseUnits(dose), coef.moderation))

(* a band that narrows away from the threshold *)
CiHalfNarrowing(coef, dose) ==
    RatMul(RatMul(Rat(196, 100), coef.se),
           RatSub(ToRat(1), RatMul(RatAbs(DoseUnits(dose)), Rat(1, 10))))

(* 1.96 * coef["se"] * (1 + abs(dose_units) * 0.1) *)
CiHalf(coef, dose) ==
    RatMul(RatMul(Rat(196, 100), coef.se),
           RatAdd(ToRat(1), RatMul(RatAbs(DoseUnits(dose)), Rat(1, 10))))

EffectPoint(coefficients, dose) ==
    LET distress_effect == EffectAt(coefficients.distress, dose)
        distress_ci == CiHalf(coefficients.distress, dose)
        engagement_effect == EffectAt(coefficients.engagement, dose)
        engagement_ci == CiHalf(coefficients.engagement, dose)
        adjustment_effect == EffectAt(coefficients.adjustment, dose)
        adjustment_ci == CiHalf(coefficients.adjustment, dose)
    IN  [creditDose |-> dose,
         distressEffect |-> Round(distress_effect, 4),
         distressCI |-> <<Round(RatSub(distress_effect, distress_ci), 4),
                          Round(RatAdd(distress_effect, distress_ci), 4)>>,
         engagementEffect |-> Round(engagement_effect, 4),
         engagementCI |-> <<Round(RatSub(engagement_effect, engagement_ci), 4),
                            Round(RatAdd(engagement_effect, engagement_ci), 4)>>,
         adjustmentEffect |-> Round(adjustment_effect, 4),
         adjustmentCI |-> <<Round(RatSub(adjustment_effect, adjustment_ci), 4),
                            Round(RatAdd(adjustment_effect, adjustment_ci), 4)>>]

(* "johnsonNeymanPoints": the literal written into both results *)
JohnsonNeymanPoints ==
    [distress |-> [lower |-> None, upper |-> None],
     engagement |-> [crossover |-> Rat(152, 10)]]

(* the result; the key "validation" is present only in the missing case
   (None here when the key is absent) *)
compute_dose_effects(main_paths) ==
    LET coefficients == Coefficients(main_paths)
        missing == Missing(main_paths)
        range == [min |-> DoseMin, max |-> DoseMax, threshold |-> Threshold]
    IN  IF missing # <<>>
        THEN [creditDoseRange |-> range,
              coefficients |-> coefficients,
              effects |-> <<>>,
              johnsonNeymanPoints |-> JohnsonNeymanPoints,
              validation |-> [status |-> "missing_coefficients", missing |-> missing]]
        ELSE [creditDoseRange |-> range,
              coefficients |-> coefficients,
              effects |-> [i \in 1..Len(dose_range) |-> EffectPoint(coefficients, dose_range[i])],
              johnsonNeymanPoints |-> JohnsonNeymanPoints,
              validation |-> None]

----------------------------------------------------------------------------
(* Inputs of the deriver: the path list extract_key_paths built from the main
   model's table.  Estimates and standard errors are multiples of 1e-4 (they
   were rounded to 4 places) or None; a row may be absent altogether. *)

Est(k) == Rat(k, 10000)
Absent == [absent |-> TRUE]
IsAbsent(r) == DOMAIN r = {"absent"}

(* the main-effect row and the moderation row of one outcome: both complete
   with every combination of values, or one of the fixed patterns (absent
   row, null estimate, null standard error, complete); at most one outcome
   of a table takes its rows outside the fixed patterns *)
CoefValues == {Est(k) : k \in (-MaxCoef)..MaxCoef}
SeValues == {Est(k) : k \in 0..MaxSe}
CompleteRows ==
    {[main |-> [estimate |-> m, se |-> e], moderation |-> [estimate |-> z, se |-> e]] :
        m \in CoefValues, z \in CoefValues, e \in SeValues}
MainPatterns ==
    {Absent, [estimate |-> None, se |-> Est(1)], [estimate |-> Est(1), se |-> None],
     [estimate |-> Est(1), se |-> Est(1)]}
ModerationPatterns ==
    {Absent, [estimate |-> None, se |-> Est(1)], [estimate |-> Est(-1), se |-> Est(1)]}
PatternRows == {[main |-> m, moderation |-> z] : m \in MainPatterns, z \in ModerationPatterns}
OutcomeRows == CompleteRows \cup PatternRows
AtMostOneFree(d, e, a) ==
    \/ d \in PatternRows /\ e \in PatternRows
    \/ d \in PatternRows /\ a \in PatternRows
    \/ e \in PatternRows /\ a \in PatternRows

PathList(label, r) ==
    IF IsAbsent(r) THEN <<>> ELSE <<[id |-> label, estimate |-> r.estimate, se |-> r.se]>>

MainPaths(d, e, a) ==
    PathList("a1", d.main) \o PathList("a1z", d.moderation)
    \o PathList("a2", e.main) \o PathList("a2z", e.moderation)
    \o PathList("c", a.main) \o PathList("cz", a.moderation)

CallComputeDoseEffects ==
    /\ call = "none"
    /\ \E d \in OutcomeRows, e \in OutcomeRows, a \in OutcomeRows :
        /\ AtMostOneFree(d, e, a)
        /\ call' = "compute_dose_effects"
        /\ args' = [main_paths |-> MainPaths(d, e, a)]
        /\ ret' = compute_dose_effects(MainPaths(d, e, a))
        /\ out' = <<>>

NextDose == CallComputeDoseEffects
SpecDose == Init /\ [][NextDose]_vars

----------------------------------------------------------------------------
(* Reference quantities the properties are stated with, computed over index
   sets instead of masked arrays *)

RECURSIVE SetSum(_, _)
SetSum(S, f) ==
    IF S = {} THEN 0
    ELSE LET i == CHOOSE j \in S : TRUE IN f[i] + SetSum(S \ {i}, f)

(* indices where both the value and the weight are present *)
Joint(x, w) == {i \in 1..Len(x) : x[i] # NaN /\ w[i] # NaN}
Present(w) == {i \in 1..Len(w) : w[i] # NaN}
(* inputs are whole numbers: their numerators *)
Num(a) == [i \in 1..Len(a) |-> IF a[i] = NaN THEN 0 ELSE a[i].n]
SumW(x, w) == SetSum(Joint(x, w), Num(w))
SumWX(x, w) == SetSum(Joint(x, w), [i \in 1..Len(x) |-> Num(w)[i] * Num(x)[i]])
SumW2(x, w) == SetSum(Joint(x, w), [i \in 1..Len(x) |-> Num(w)[i] * Num(w)[i]])

IsMeanCall == call \in {"weighted_mean", "descriptives.weighted_mean"}
IsSemCall == call \in {"weighted_sem", "descriptives.weighted_sem"}

----------------------------------------------------------------------------
(* C1: weighted_mean(x, w), in both plotting modules, is NaN (not zero) when
   no entry has both x and w present, and otherwise (total weight non-zero)
   is the rational sum(w*x)/sum(w) taken over exactly the entries where both
   are present. *)
C1_WeightedMeanOverJointMask ==
    IsMeanCall =>
        /\ Joint(args.x, args.w) = {} => ret = NaN
        /\ (Joint(args.x, args.w) # {} /\ SumW(args.x, args.w) # 0) =>
               /\ IsRat(ret)
               /\ ret.n * SumW(args.x, args.w) = ret.d * SumWX(args.x, args.w)

(* C1 witness: three records, one missing its value or weight, the other two
   kept with unequal weights: x = (0, 1), w = (1, 2) gives 2/3 *)
C1_Witness ==
    /\ call = "weighted_mean"
    /\ Len(args.x) = 3
    /\ Cardinality(Joint(args.x, args.w)) = 2
    /\ \E i \in 1..3 : args.x[i] # NaN /\ args.w[i] = NaN
    /\ ret = Rat(2, 3)

(* C9: for non-negative weights with at least one positive, weighted_n_eff is
   (sum w)^2 / sum(w^2) over the non-missing weights, lies between 0 and the
   number of non-missing weights (zeros included in that number), and equals
   that number exactly when all non-missing weights are equal; with no
   non-missing weight it is 0. *)
C9_NEffBounds ==
    call = "weighted_n_eff" =>
        LET w == args.w
            P == Present(w)
            cnt == Cardinality(P)
            s == SetSum(P, Num(w))
            s2 == SetSum(P, [i \in 1..Len(w) |-> Num(w)[i] * Num(w)[i]])
        IN  /\ P = {} => ret = ToRat(0)
            /\ (\E i \in P : w[i].n > 0) =>
                   /\ IsRat(ret)
                   /\ ret.n * s2 = ret.d * s * s
                   /\ 0 <= ret.n
                   /\ ret.n <= cnt * ret.d
                   /\ (ret.n = cnt * ret.d) <=> (\A i, j \in P : w[i] = w[j])

(* C9 witness: w = (2, 2, 0) in some order has three non-missing weights and
   n_eff = 16/8 = 2 *)
C9_Witness ==
    /\ call = "weighted_n_eff"
    /\ Len(args.w) = 3
    /\ Present(args.w) = 1..3
    /\ \E i \in 1..3 : args.w[i] = ToRat(0)
    /\ ret = ToRat(2)

(* Kish's effective sample size of the jointly non-missing entries *)
KishNEff(x, w) ==
    IF Joint(x, w) = {} THEN ToRat(0)
    ELSE Rat(SumW(x, w) * SumW(x, w), SumW2(x, w))

(* C10: every weighted_sem returns weighted_std(x, w)/sqrt(n_eff) with n_eff
   Kish's (sum w)^2/sum(w^2) of the jointly non-missing entries, and NaN when
   that n_eff <= 1, so that both modules agree on every input (stated where
   the total weight is positive). *)
C10_OneSemDefinition ==
    (IsSemCall /\ (Joint(args.x, args.w) = {} \/ SumW(args.x, args.w) > 0)) =>
        ret = IF RatLeq(KishNEff(args.x, args.w), ToRat(1)) THEN NaN
              ELSE DivBySqrt(weighted_std(args.x, args.w), KishNEff(args.x, args.w))

----------------------------------------------------------------------------
(* The rows of the table looked up, and the positions whose label is the key *)
LookupRows == IF IsNone(args.df) THEN <<>> ELSE args.df.some
Matches == {i \in 1..Len(LookupRows) : LookupRows[i].parameter = args.param}

(* C6: get_effect_row returns None when no row carries the label (a missing
   and an empty table included) and the one row carrying it when the label
   is present exactly once. *)
C6_GetEffectRowUnique ==
    call = "get_effect_row" =>
        /\ Matches = {} => ret = None
        /\ Cardinality(Matches) = 1 => \E i \in Matches : ret = LookupRows[i]

(* C6 witness: a three-row table whose last row alone carries the label *)
C6_Witness ==
    /\ call = "get_effect_row"
    /\ Len(LookupRows) = 3
    /\ Matches = {3}
    /\ ret = LookupRows[3]

(* C7: with duplicate labels get_effect_row returns the first occurrence in
   table order, does not raise, and flags the ambiguity (the only channels a
   flag could take are the returned value and the standard output). *)
C7_DuplicateFirstAndFlagged ==
    (call = "get_effect_row" /\ Cardinality(Matches) >= 2) =>
        /\ ~IsRaise(ret)
        /\ \E i \in Matches : (\A j \in Matches : i <= j) /\ ret = LookupRows[i]
        /\ out # <<>>

(* The rows extract_key_paths is to consider, and the wanted labels *)
WantedLabels ==
    IF IsNone(args.key_paths) THEN Range(KEY_PATHS) ELSE Range(args.key_paths.some)
Qualifying ==
    {i \in 1..Len(args.params) :
        /\ args.params[i].op = "~"
        /\ args.params[i].label \notin {"", NaNLabel}}
PresentWanted == {args.params[i].label : i \in Qualifying} \cap WantedLabels

(* C8: extract_key_paths returns records only for wanted labels present in
   rows with op "~" and a non-empty label, one for each such label, never two
   for the same label, and the empty list for an empty table. *)
C8_OneRecordPerWantedLabel ==
    call = "extract_key_paths" =>
        /\ {ret[j].id : j \in 1..Len(ret)} = PresentWanted
        /\ \A j, k \in 1..Len(ret) : ret[j].id = ret[k].id => j = k
        /\ args.params = <<>> => ret = <<>>

----------------------------------------------------------------------------
(* Reference quantities of the deriver, in whole numbers: a coefficient or a
   reported value counted in units of 1e-4, the exact effect in units of
   1e-5, the exact half-width in units of 1e-8 *)

IsDoseCall == call = "compute_dose_effects"
HasCurve == IsDoseCall /\ IsNone(ret.validation)
Outcomes == {"distress", "engagement", "adjustment"}
MainLabel == [distress |-> "a1", engagement |-> "a2", adjustment |-> "c"]
ModerationLabel == [distress |-> "a1z", engagement |-> "a2z", adjustment |-> "cz"]
NeededLabels == <<"a1", "a1z", "a2", "a2z", "c", "cz">>

Units4(q) == q.n * (10000 \div q.d)
ReportedEffect(pt, o) ==
    CASE o = "distress" -> pt.distressEffect
      [] o = "engagement" -> pt.engagementEffect
      [] o = "adjustment" -> pt.adjustmentEffect
ReportedCI(pt, o) ==
    CASE o = "distress" -> pt.distressCI
      [] o = "engagement" -> pt.engagementCI
      [] o = "adjustment" -> pt.adjustmentCI

(* the records of the input list with a given id *)
Records(label) ==
    {i \in 1..Len(args.main_paths) : args.main_paths[i].id = label}
RowAbsent(label) == Records(label) = {}
FirstRecord(label) ==
    args.main_paths[CHOOSE i \in Records(label) : \A j \in Records(label) : i <= j]
Unavailable(label, field) == RowAbsent(label) \/ IsNone(FirstRecord(label)[field])

(* main.estimate + ((dose - 12)/10) * moderation.estimate, times 1e5 *)
ExactEffect5(o, dose) ==
    10 * Units4(FirstRecord(MainLabel[o]).estimate)
    + (dose - 12) * Units4(FirstRecord(ModerationLabel[o]).estimate)
(* 1.96 * main.se * (1 + |(dose - 12)/10| * 0.1), times 1e8 *)
ExactHalf8(o, dose) ==
    196 * Units4(FirstRecord(MainLabel[o]).se) * (100 + Abs(dose - 12))

(* C2 as claimed: at every grid dose and for every outcome the reported
   effect is exactly main.estimate + ((dose - 12)/10) * moderation.estimate. *)
C2_EffectExactFormula ==
    HasCurve =>
        \A i \in 1..Len(ret.effects) : \A o \in Outcomes :
            10 * Units4(ReportedEffect(ret.effects[i], o))
                = ExactEffect5(o, ret.effects[i].creditDose)

(* C2 amended: the curve has one point per dose 0, 5, ..., 80 in ascending
   order, and for every outcome the reported effect is
   main.estimate + ((dose - 12)/10) * moderation.estimate rounded to four
   decimal places (a multiple of 1e-4 within 0.00005 of the exact value);
   the formula itself gives main at dose 12 and main + moderation at dose 22,
   neither of which is a grid point. *)
C2_EffectRoundedFormula ==
    HasCurve =>
        /\ Len(ret.effects) = 17
        /\ \A i \in 1..Len(ret.effects) : ret.effects[i].creditDose = 5 * (i - 1)
        /\ \A i \in 1..Len(ret.effects) : \A o \in Outcomes :
              /\ 10000 % ReportedEffect(ret.effects[i], o).d = 0
              /\ Abs(10 * Units4(ReportedEffect(ret.effects[i], o))
                      - ExactEffect5(o, ret.effects[i].creditDose)) <= 5
        /\ \A o \in Outcomes :
              /\ EffectAt(ret.coefficients[o], 12) = ret.coefficients[o].main
              /\ EffectAt(ret.coefficients[o], 22)
                    = RatAdd(ret.coefficients[o].main, ret.coefficients[o].moderation)
              /\ ret.coefficients[o].main = FirstRecord(MainLabel[o]).estimate
              /\ ret.coefficients[o].moderation = FirstRecord(ModerationLabel[o]).estimate

(* C2 witness: a curve whose first point (dose 0) reports a rounded value:
   main 0.0001 and moderation 0.0001 give 0.0001 - 1.2 * 0.0001 = -0.00002,
   reported as 0 *)
C2_Witness ==
    /\ HasCurve
    /\ ret.coefficients.distress.main = Est(1)
    /\ ret.coefficients.distress.moderation = Est(1)
    /\ ret.effects[1].creditDose = 0
    /\ ret.effects[1].distressEffect = ToRat(0)

(* the labels reported missing, as the amended C3 describes them *)
ExpectedMissing ==
    SelectSeq(NeededLabels, LAMBDA l : Unavailable(l, "estimate"))
    \o SelectSeq(<<"a1_se", "a2_se", "c_se">>,
                 LAMBDA l : \/ l = "a1_se" /\ Unavailable("a1", "se")
                            \/ l = "a2_se" /\ Unavailable("a2", "se")
                            \/ l = "c_se" /\ Unavailable("c", "se"))
AbsentLabels == {l \in Range(NeededLabels) : RowAbsent(l)}
CoefficientOf(l) ==
    CASE l = "a1" -> ret.coefficients.distress.main
      [] l = "a1z" -> ret.coefficients.distress.moderation
      [] l = "a2" -> ret.coefficients.engagement.main
      [] l = "a2z" -> ret.coefficients.engagement.moderation
      [] l = "c" -> ret.coefficients.adjustment.main
      [] l = "cz" -> ret.coefficients.adjustment.moderation

(* C3 as claimed: when a needed row is absent the result has status
   "missing_coefficients", a missing list made of the labels of the absent
   rows, null for the absent coefficient and no curve point. *)
C3_MissingListIsAbsentRows ==
    (IsDoseCall /\ AbsentLabels # {}) =>
        /\ ~IsNone(ret.validation)
        /\ ret.validation.status = "missing_coefficients"
        /\ Range(ret.validation.missing) = AbsentLabels
        /\ \A l \in AbsentLabels : CoefficientOf(l) = None
        /\ ret.effects = <<>>

(* C3 amended: when a needed row is absent, nothing is raised and no
   coefficient is defaulted to zero: the status is "missing_coefficients",
   the absent coefficient is null, there is no curve point, and the missing
   list names, in the order a1, a1z, a2, a2z, c, cz, every label whose row is
   absent or has a null estimate, followed by a1_se, a2_se, c_se for every
   main-effect row that is absent or has a null standard error (exactly
   ["a2z"] when only a2z is absent). *)
C3_MissingCoefficients ==
    (IsDoseCall /\ AbsentLabels # {}) =>
        /\ ~IsRaise(ret)
        /\ ~IsNone(ret.validation)
        /\ ret.validation.status = "missing_coefficients"
        /\ ret.validation.missing = ExpectedMissing
        /\ \A l \in AbsentLabels : l \in Range(ret.validation.missing)
        /\ \A l \in AbsentLabels : CoefficientOf(l) = None
        /\ ret.effects = <<>>
        /\ (AbsentLabels = {"a2z"} /\ \A l \in Range(NeededLabels) \ {"a2z"} :
                ~Unavailable(l, "estimate") /\ ~Unavailable(l, "se"))
              => ret.validation.missing = <<"a2z">>

(* C3 witness: the table lacks the row a2z and nothing else *)
C3_Witness ==
    /\ IsDoseCall
    /\ AbsentLabels = {"a2z"}
    /\ ret.validation.missing = <<"a2z">>
    /\ ret.coefficients.engagement.moderation = None
    /\ ret.coefficients.engagement.main # None
    /\ ret.effects = <<>>

(* an outcome all of whose coefficients are there *)
Derivable(o) ==
    /\ ~Unavailable(MainLabel[o], "estimate")
    /\ ~Unavailable(MainLabel[o], "se")
    /\ ~Unavailable(ModerationLabel[o], "estimate")

(* C4: a coefficient missing for one outcome does not block the others: an
   outcome whose own coefficients are all there gets its curve points. *)
C4_SiblingsNotBlocked ==
    IsDoseCall =>
        \A o \in Outcomes : Derivable(o) => Len(ret.effects) = Len(dose_range)

(* C5 as claimed: the reported interval is exactly [effect - h, effect + h]
   with h = 1.96 * main.se * (1 + |(dose - 12)/10| * 0.1). *)
C5_IntervalExact ==
    HasCurve =>
        \A i \in 1..Len(ret.effects) : \A o \in Outcomes :
            LET dose == ret.effects[i].creditDose
                ci == ReportedCI(ret.effects[i], o)
            IN  /\ 10000 * Units4(ci[1]) = 1000 * ExactEffect5(o, dose) - ExactHalf8(o, dose)
                /\ 10000 * Units4(ci[2]) = 1000 * ExactEffect5(o, dose) + ExactHalf8(o, dose)

(* C5 amended: with e the unrounded effect and
   h = 1.96 * main.se * (1 + |(dose - 12)/10| * 0.1), the reported interval is
   [e - h, e + h] with each bound rounded to four decimal places (within
   0.00005 of the exact bound); for se >= 0 ci_lower <= reported effect <=
   ci_upper; h is smallest at the grid point nearest the threshold (dose 10)
   and non-decreasing as |dose - 12| grows. *)
C5_IntervalRounded ==
    HasCurve =>
        \A i \in 1..Len(ret.effects) : \A o \in Outcomes :
            LET dose == ret.effects[i].creditDose
                ci == ReportedCI(ret.effects[i], o)
                eff == ReportedEffect(ret.effects[i], o)
            IN  /\ Abs(10000 * Units4(ci[1])
                        - (1000 * ExactEffect5(o, dose) - ExactHalf8(o, dose))) <= 5000
                /\ Abs(10000 * Units4(ci[2])
                        - (1000 * ExactEffect5(o, dose) + ExactHalf8(o, dose))) <= 5000
                /\ RatLeq(ci[1], eff)
                /\ RatLeq(eff, ci[2])
                /\ ExactHalf8(o, 10) <= ExactHalf8(o, dose)
                /\ \A j \in 1..Len(ret.effects) :
                      Abs(ret.effects[j].creditDose - 12) <= Abs(dose - 12)
                          => ExactHalf8(o, ret.effects[j].creditDose) <= ExactHalf8(o, dose)

(* C5 witness: a positive standard error and a point whose bounds lie
   strictly on either side of the reported effect *)
C5_Witness ==
    /\ HasCurve
    /\ ret.coefficients.engagement.se = Est(1)
    /\ \E i \in 1..Len(ret.effects) :
          /\ RatLt(ret.effects[i].engagementCI[1], ret.effects[i].engagementEffect)
          /\ RatLt(ret.effects[i].engagementEffect, ret.effects[i].engagementCI[2])

----------------------------------------------------------------------------
(* weighted_proportion of both plotting modules, and the calls of every
   weighted statistic together *)

weighted_proportion(binary_col, w) ==
    LET mask == MaskAnd(NotNan(binary_col), NotNan(w))
    IN  IF MaskSum(mask) = 0 THEN NaN
        ELSE NpAverage(Masked(binary_col, mask), Masked(w, mask))

descriptives_weighted_proportion(binary_col, w) ==
    LET mask == MaskAnd(NotNan(binary_col), NotNan(w))
    IN  IF MaskSum(mask) = 0 THEN NaN
        ELSE NpAverage(Masked(binary_col, mask), Masked(w, mask))

CallWeightedProportion ==
    /\ call = "none"
    /\ \E n \in Lengths : \E x \in Arrays(Values, n), w \in Arrays(Weights, n) :
        /\ call' = "weighted_proportion"
        /\ args' = [x |-> x, w |-> w]
        /\ ret' = weighted_proportion(x, w)
        /\ out' = <<>>

CallDescriptivesWeightedProportion ==
    /\ call = "none"
    /\ \E n \in Lengths : \E x \in Arrays(Values, n), w \in Arrays(Weights, n) :
        /\ call' = "descriptives.weighted_proportion"
        /\ args' = [x |-> x, w |-> w]
        /\ ret' = descriptives_weighted_proportion(x, w)
        /\ out' = <<>>

NextStatistics ==
    \/ CallWeightedMean
    \/ CallWeightedStd
    \/ CallWeightedSem
    \/ CallWeightedProportion
    \/ CallDescriptivesWeightedMean
    \/ CallDescriptivesWeightedStd
    \/ CallDescriptivesWeightedSem
    \/ CallDescriptivesWeightedProportion

SpecStatistics == Init /\ [][NextStatistics]_vars

IsStatisticCall ==
    call \in {"weighted_mean", "weighted_std", "weighted_sem", "weighted_proportion",
              "descriptives.weighted_mean", "descriptives.weighted_std",
              "descriptives.weighted_sem", "descriptives.weighted_proportion"}

(* C11: when the jointly non-missing entries exist but their weights sum to
   zero, weighted_mean, weighted_std, weighted_sem and weighted_proportion of
   both modules return NaN: they neither raise nor return a number. *)
C11_ZeroTotalWeightIsNaN ==
    (/\ IsStatisticCall
     /\ Joint(args.x, args.w) # {}
     /\ SumW(args.x, args.w) = 0) => ret = NaN

----------------------------------------------------------------------------
(* C12: with exactly one jointly non-missing observation of positive weight,
   weighted_std is the root of zero and weighted_sem is NaN, in both modules;
   with no jointly non-missing observation both are NaN.  Stated at every
   weighted_sem call, for its result and for the weighted_std of the same
   arguments in both modules. *)
C12_SingleObservation ==
    IsSemCall =>
        /\ Joint(args.x, args.w) = {} =>
               /\ ret = NaN
               /\ weighted_std(args.x, args.w) = NaN
               /\ descriptives_weighted_std(args.x, args.w) = NaN
        /\ (Cardinality(Joint(args.x, args.w)) = 1 /\ SumW(args.x, args.w) > 0) =>
               /\ ret = NaN
               /\ weighted_std(args.x, args.w) = NpSqrt(ToRat(0))
               /\ descriptives_weighted_std(args.x, args.w) = NpSqrt(ToRat(0))

(* C12 witness: three records of which one alone has both its value and its
   weight, the weight being 2: weighted_sem has n_eff = 4/4 = 1 and is NaN,
   and the weighted_std of them is the root of zero *)
C12_Witness ==
    /\ call = "weighted_sem"
    /\ Len(args.x) = 3
    /\ Cardinality(Joint(args.x, args.w)) = 1
    /\ SumW(args.x, args.w) = 2
    /\ ret = NaN
    /\ weighted_std(args.x, args.w) = NpSqrt(ToRat(0))

----------------------------------------------------------------------------
(* plot_deep_cuts.py: weighted_linregress *)

MaxObs == 3

Sign(q) == IF q.n > 0 THEN 1 ELSE IF q.n < 0 THEN -1 ELSE 0

(* a / np.sqrt(q) with q > 0, kept exactly by its sign and its square *)
OverSqrt(a, q) == [sign |-> Sign(a), square |-> RatDiv(RatMul(a, a), q)]

(* 2 * (1 - stats.t.cdf(abs(t), df)): the two-sided tail of Student's t, kept
   by its arguments *)
TwoSidedP(t, df) == [abs_t |-> [sign |-> Abs(t.sign), square |-> t.square], df |-> df]

AllNaN == [slope |-> NaN, intercept |-> NaN, r |-> NaN, p |-> NaN]

(* weighted means and centered sums of the masked arrays *)
RegressionSums(x, y, w) ==
    LET w_sum == NpSum(w)
        x_bar == RatDiv(NpSum(Times(w, x)), w_sum)
        y_bar == RatDiv(NpSum(Times(w, y)), w_sum)
        dx == [i \in 1..Len(x) |-> RatSub(x[i], x_bar)]
        dy == [i \in 1..Len(y) |-> RatSub(y[i], y_bar)]
    IN  [x_bar |-> x_bar, y_bar |-> y_bar,
         sxx |-> NpSum(Times(w, Times(dx, dx))),
         sxy |-> NpSum(Times(w, Times(dx, dy))),
         syy |-> NpSum(Times(w, Times(dy, dy)))]

(* the fit with the roles of x and y exchanged in the slope *)
RegressionFitInverted(s) ==
    LET slope == RatDiv(s.sxy, s.syy)
    IN  [slope |-> slope,
         intercept |-> RatSub(s.y_bar, RatMul(slope, s.x_bar)),
         r |-> OverSqrt(s.sxy, RatMul(s.sxx, s.syy))]

RegressionFit(s) ==
    LET slope == RatDiv(s.sxy, s.sxx)
    IN  [slope |-> slope,
         intercept |-> RatSub(s.y_bar, RatMul(slope, s.x_bar)),
         r |-> OverSqrt(s.sxy, RatMul(s.sxx, s.syy))]

(* the p-value with the raw count of observations for n_eff *)
RegressionPRawCount(x, y, w, fit, sxx) ==
    LET n_eff == ToRat(Len(w))
        res == [i \in 1..Len(x) |->
                   RatSub(y[i], RatAdd(fit.intercept, RatMul(fit.slope, x[i])))]
        sse == NpSum(Times(w, Times(res, res)))
        sigma2 == RatDiv(sse, RatSub(n_eff, ToRat(2)))
        se2 == RatDiv(sigma2, sxx)
    IN  IF RatLt(ToRat(2), n_eff)
        THEN IF se2.n > 0
             THEN TwoSidedP(OverSqrt(fit.slope, se2), RatSub(n_eff, ToRat(2)))
             ELSE NaN
        ELSE NaN

(* np.sqrt(sigma2 / sxx) > 0 exactly when sigma2 / sxx > 0 *)
RegressionP(x, y, w, fit, sxx) ==
    LET n_eff == weighted_n_eff(w)
        res == [i \in 1..Len(x) |->
                   RatSub(y[i], RatAdd(fit.intercept, RatMul(fit.slope, x[i])))]
        sse == NpSum(Times(w, Times(res, res)))
        sigma2 == RatDiv(sse, RatSub(n_eff, ToRat(2)))
        se2 == RatDiv(sigma2, sxx)
    IN  IF RatLt(ToRat(2), n_eff)
        THEN IF se2.n > 0
             THEN TwoSidedP(OverSqrt(fit.slope, se2), RatSub(n_eff, ToRat(2)))
             ELSE NaN
        ELSE NaN

(* weighted_linregress fitting from two observations on *)
weighted_linregress_from_two(x, y, w) ==
    LET mask == MaskAnd(MaskAnd(NotNan(x), NotNan(y)), NotNan(w))
        xm == Masked(x, mask)
        ym == Masked(y, mask)
        wm == Masked(w, mask)
        s == RegressionSums(xm, ym, wm)
        fit == RegressionFit(s)
    IN  IF Len(xm) < 2 THEN AllNaN
        ELSE IF NpSum(wm).n = 0 THEN AllNaN
        ELSE IF s.sxx.n = 0 \/ s.syy.n = 0 THEN AllNaN
        ELSE [slope |-> fit.slope, intercept |-> fit.intercept, r |-> fit.r,
              p |-> RegressionP(xm, ym, wm, fit, s.sxx)]

(* With the weights summing to zero the means are 0/0 = nan (a warning, not
   an exception); nan == 0 is False and nan > 2 is False, so nan runs through
   to all four outputs *)
weighted_linregress(x, y, w) ==
    LET mask == MaskAnd(MaskAnd(NotNan(x), NotNan(y)), NotNan(w))
        xm == Masked(x, mask)
        ym == Masked(y, mask)
        wm == Masked(w, mask)
        s == RegressionSums(xm, ym, wm)
        fit == RegressionFit(s)
    IN  IF Len(xm) < 3 THEN AllNaN
        ELSE IF NpSum(wm).n = 0 THEN AllNaN
        ELSE IF s.sxx.n = 0 \/ s.syy.n = 0 THEN AllNaN
        ELSE [slope |-> fit.slope, intercept |-> fit.intercept, r |-> fit.r,
              p |-> RegressionP(xm, ym, wm, fit, s.sxx)]

(* Inputs: observations (x, y, w); x and y take two values each, so that
   (0, 3) and (1, 5) lie on y = 2x + 3 and (0, 5) and (1, 3) lie off it;
   a weight is zero, one or four; an observation may miss any one entry *)
RegressX == {ToRat(0), ToRat(1)}
RegressY == {ToRat(3), ToRat(5)}
RegressWeights == {ToRat(0), ToRat(1), ToRat(4)}
Observations ==
    [x : RegressX, y : RegressY, w : RegressWeights]
        \cup {[x |-> NaN, y |-> ToRat(3), w |-> ToRat(1)],
              [x |-> ToRat(0), y |-> NaN, w |-> ToRat(1)],
              [x |-> ToRat(0), y |-> ToRat(3), w |-> NaN]}

CallWeightedLinregress ==
    /\ call = "none"
    /\ \E n \in 0..MaxObs : \E obs \in [1..n -> Observations] :
        /\ call' = "weighted_linregress"
        /\ args' = [x |-> [i \in 1..n |-> obs[i].x],
                    y |-> [i \in 1..n |-> obs[i].y],
                    w |-> [i \in 1..n |-> obs[i].w]]
        /\ ret' = weighted_linregress(args'.x, args'.y, args'.w)
        /\ out' = <<>>

NextRegress == CallWeightedLinregress
SpecRegress == Init /\ [][NextRegress]_vars

----------------------------------------------------------------------------
(* Reference quantities of the regression, in whole numbers: with W the
   total weight, A = sum(w x) and B = sum(w y) over the jointly non-missing
   observations, W*Sxx = W*sum(w x^2) - A^2 and likewise for Sxy and Syy
   (the expanded form of the centered sums), and
   W^2 * Sxx * SSE = Dxx*Dyy - Dxy^2 (from SSE = Syy - Sxy^2/Sxx) *)

Joint3(x, y, w) == {i \in 1..Len(x) : x[i] # NaN /\ y[i] # NaN /\ w[i] # NaN}

Moments3(x, y, w) ==
    LET J == Joint3(x, y, w)
        xs == Num(x)
        ys == Num(y)
        ws == Num(w)
        W == SetSum(J, ws)
        A == SetSum(J, [i \in 1..Len(x) |-> ws[i] * xs[i]])
        B == SetSum(J, [i \in 1..Len(x) |-> ws[i] * ys[i]])
        Dxx == W * SetSum(J, [i \in 1..Len(x) |-> ws[i] * xs[i] * xs[i]]) - A * A
        Dxy == W * SetSum(J, [i \in 1..Len(x) |-> ws[i] * xs[i] * ys[i]]) - A * B
        Dyy == W * SetSum(J, [i \in 1..Len(x) |-> ws[i] * ys[i] * ys[i]]) - B * B
    IN  [count |-> Cardinality(J), W |-> W, A |-> A, B |-> B,
         W2 |-> SetSum(J, [i \in 1..Len(x) |-> ws[i] * ws[i]]),
         Dxx |-> Dxx, Dxy |-> Dxy, Dyy |-> Dyy,
         Residual |-> Dxx * Dyy - Dxy * Dxy]

IsRegressCall == call = "weighted_linregress"
(* the fit is defined: three observations and neither x nor y constant *)
FitDefined(m) == m.count >= 3 /\ m.Dxx # 0 /\ m.Dyy # 0

(* C13: weighted_linregress returns slope, intercept, r and p all NaN, and
   does not raise, whenever fewer than 3 jointly non-missing observations
   remain or Sxx = 0 or Syy = 0; otherwise slope = Sxy/Sxx and
   intercept = y_bar - slope * x_bar. *)
C13_RegressionDefinedness ==
    IsRegressCall =>
        LET m == Moments3(args.x, args.y, args.w)
        IN  /\ DOMAIN ret = {"slope", "intercept", "r", "p"}
            /\ ~FitDefined(m) => ret = AllNaN
            /\ FitDefined(m) =>
                   /\ IsRat(ret.slope) /\ IsRat(ret.intercept)
                   /\ ret.slope.n * m.Dxx = ret.slope.d * m.Dxy
                   /\ ret.intercept.n * m.W * m.Dxx
                          = ret.intercept.d * (m.B * m.Dxx - m.Dxy * m.A)

(* C13 witness: three observations with unequal weights, neither x nor y
   constant, fitted with a slope that is not a whole number *)
C13_Witness ==
    /\ IsRegressCall
    /\ Len(args.x) = 3
    /\ FitDefined(Moments3(args.x, args.y, args.w))
    /\ \E i, j \in 1..3 : args.w[i] # args.w[j]
    /\ ret.slope.d # 1

(* C13 witness of the undefined side: three observations, positive total
   weight, all x equal *)
C13_WitnessConstantX ==
    /\ IsRegressCall
    /\ LET m == Moments3(args.x, args.y, args.w)
       IN  m.count = 3 /\ m.W > 0 /\ m.Dxx = 0 /\ m.Dyy # 0
    /\ ret = AllNaN

(* C14: where the fit is defined, the residual variance is SSE/(n_eff - 2)
   with n_eff Kish's effective sample size of the valid weights, so that
   t^2 = slope^2 * Sxx * (n_eff - 2)/SSE on n_eff - 2 degrees of freedom;
   p is NaN (not 0) while slope, intercept and r are defined whenever
   n_eff <= 2 or the standard error of the slope is not positive (SSE = 0). *)
C14_ResidualVarianceAndP ==
    IsRegressCall =>
        LET m == Moments3(args.x, args.y, args.w)
            n_eff == Rat(m.W * m.W, m.W2)
            df == RatSub(n_eff, ToRat(2))
            t2 == RatMul(Rat(m.Dxy * m.Dxy, m.Residual), df)
        IN  FitDefined(m) =>
            /\ (RatLeq(n_eff, ToRat(2)) \/ m.Residual = 0) =>
                   /\ ret.p = NaN
                   /\ IsRat(ret.slope) /\ IsRat(ret.intercept)
                   /\ ret.r # NaN
            /\ (RatLt(ToRat(2), n_eff) /\ m.Residual > 0) =>
                   ret.p = [abs_t |-> [sign |-> Abs(Sign(ret.slope)), square |-> t2],
                            df |-> df]

(* C14 witness: three observations off a line, weights 4, 1, 1 in some order:
   n_eff = 36/18 = 2 with a raw count of 3 and SSE > 0; p is NaN *)
C14_Witness ==
    /\ IsRegressCall
    /\ Len(args.x) = 3
    /\ \A i \in 1..3 : args.w[i] # NaN /\ args.w[i].n > 0
    /\ LET m == Moments3(args.x, args.y, args.w)
       IN  FitDefined(m) /\ m.Residual > 0 /\ m.W * m.W = 2 * m.W2
    /\ ret.p = NaN
    /\ IsRat(ret.slope)

(* the observation lies on y = 2x + 3 *)
OnLine(x, y, i) == y[i].n = 2 * x[i].n + 3

(* C15: when every jointly non-missing observation lies on y = 2x + 3, there
   are at least 3 of them and two of positive weight differ in x, then
   slope = 2, intercept = 3 and r = 1, whatever the weights. *)
C15_ExactLine ==
    IsRegressCall =>
        LET J == Joint3(args.x, args.y, args.w)
        IN  (/\ Cardinality(J) >= 3
             /\ \A i \in J : OnLine(args.x, args.y, i)
             /\ \E i, j \in J :
                    /\ args.w[i].n > 0 /\ args.w[j].n > 0
                    /\ args.x[i] # args.x[j]) =>
                /\ ret.slope = ToRat(2)
                /\ ret.intercept = ToRat(3)
                /\ ret.r = [sign |-> 1, square |-> ToRat(1)]

(* C15 witness: three observations on the line with weights 1, 4, 4 in some
   order *)
C15_Witness ==
    /\ IsRegressCall
    /\ Len(args.x) = 3
    /\ Joint3(args.x, args.y, args.w) = 1..3
    /\ \A i \in 1..3 : OnLine(args.x, args.y, i)
    /\ \E i, j \in 1..3 : args.x[i] # args.x[j]
    /\ \E i, j \in 1..3 : args.w[i] = ToRat(1) /\ args.w[j] = ToRat(4)
    /\ \A i \in 1..3 : args.w[i].n > 0
    /\ ret.slope = ToRat(2)
    /\ ret.intercept = ToRat(3)

----------------------------------------------------------------------------
(* plot_descriptives.py: weighted_corr and the weighted Spearman matrix of
   Figure 6 *)

(* the weighted moments with the covariance left as a sum of products *)
CorrMomentsCovNotAveraged(x, y, w) ==
    LET w_sum == NpSum(w)
        x_bar == RatDiv(NpSum(Times(w, x)), w_sum)
        y_bar == RatDiv(NpSum(Times(w, y)), w_sum)
        dx == [i \in 1..Len(x) |-> RatSub(x[i], x_bar)]
        dy == [i \in 1..Len(y) |-> RatSub(y[i], y_bar)]
    IN  [cov |-> NpSum(Times(w, Times(dx, dy))),
         var_x |-> RatDiv(NpSum(Times(w, Times(dx, dx))), w_sum),
         var_y |-> RatDiv(NpSum(Times(w, Times(dy, dy))), w_sum)]

CorrMoments(x, y, w) ==
    LET w_sum == NpSum(w)
        x_bar == RatDiv(NpSum(Times(w, x)), w_sum)
        y_bar == RatDiv(NpSum(Times(w, y)), w_sum)
        dx == [i \in 1..Len(x) |-> RatSub(x[i], x_bar)]
        dy == [i \in 1..Len(y) |-> RatSub(y[i], y_bar)]
    IN  [cov |-> RatDiv(NpSum(Times(w, Times(dx, dy))), w_sum),
         var_x |-> RatDiv(NpSum(Times(w, Times(dx, dx))), w_sum),
         var_y |-> RatDiv(NpSum(Times(w, Times(dy, dy))), w_sum)]

(* weighted_corr reporting no correlation, zero, for a constant column *)
weighted_corr_zero_when_constant(x, y, w) ==
    LET mask == MaskAnd(MaskAnd(NotNan(x), NotNan(y)), NotNan(w))
        xm == Masked(x, mask)
        ym == Masked(y, mask)
        wm == Masked(w, mask)
        m == CorrMoments(xm, ym, wm)
    IN  IF MaskSum(mask) < 2 THEN NaN
        ELSE IF NpSum(wm).n = 0 THEN NaN
        ELSE IF m.var_x.n <= 0 \/ m.var_y.n <= 0 THEN ToRat(0)
        ELSE OverSqrt(m.cov, RatMul(m.var_x, m.var_y))

weighted_corr(x, y, w) ==
    LET mask == MaskAnd(MaskAnd(NotNan(x), NotNan(y)), NotNan(w))
        xm == Masked(x, mask)
        ym == Masked(y, mask)
        wm == Masked(w, mask)
        m == CorrMoments(xm, ym, wm)
    IN  IF MaskSum(mask) < 2 THEN NaN
        ELSE IF NpSum(wm).n = 0 THEN NaN
        ELSE IF m.var_x.n <= 0 \/ m.var_y.n <= 0 THEN NaN
        ELSE OverSqrt(m.cov, RatMul(m.var_x, m.var_y))

(* pandas: Series.rank(method='average', na_option='keep'): the rank of an
   entry is the mean of the positions its value takes among the sorted
   non-missing entries; a missing entry stays missing *)
RankOf(col, i) ==
    IF col[i] = NaN THEN NaN
    ELSE LET less == Cardinality({j \in 1..Len(col) :
                         col[j] # NaN /\ RatLt(col[j], col[i])})
             same == Cardinality({j \in 1..Len(col) : col[j] = col[i]})
         IN  Rat(2 * less + same + 1, 2)

RECURSIVE RanksFrom(_, _)
RanksFrom(col, i) ==
    IF i > Len(col) THEN <<>> ELSE <<RankOf(col, i)>> \o RanksFrom(col, i + 1)

AverageRank(col) == RanksFrom(col, 1)

RECURSIVE MaskAny(_)
MaskAny(mask) == mask # <<>> /\ (Head(mask) \/ MaskAny(Tail(mask)))

(* one cell of corr_matrix: the ranks of col_i against the ranks of col_j *)
SpearmanCell(xi, yj, w) ==
    LET mask_i == MaskAnd(NotNan(xi), NotNan(w))
        mask == MaskAnd(mask_i, NotNan(yj))
    IN  IF ~MaskAny(mask_i) THEN NaN
        ELSE IF MaskSum(mask) < 2 THEN NaN
        ELSE weighted_corr(Masked(xi, mask), Masked(yj, mask), Masked(w, mask))

(* corr_matrix over the analysis columns (every column but the weights) *)
SpearmanMatrix(df, w) ==
    LET ranks == [c \in DOMAIN df |-> AverageRank(df[c])]
    IN  [cell \in (DOMAIN df) \X (DOMAIN df) |->
            SpearmanCell(ranks[cell[1]], ranks[cell[2]], w)]

(* Inputs: rows (x, y, w) of two binary columns and a weight of zero, one or
   two; a row may miss any one entry *)
MaxFigRows == 2
CorrValues == {ToRat(0), ToRat(1)}
CorrWeights == {ToRat(0), ToRat(1), ToRat(2)}
CorrRows ==
    [x : CorrValues, y : CorrValues, w : CorrWeights]
        \cup {[x |-> NaN, y |-> ToRat(1), w |-> ToRat(1)],
              [x |-> ToRat(1), y |-> NaN, w |-> ToRat(1)],
              [x |-> ToRat(1), y |-> ToRat(1), w |-> NaN]}
Column(rows, c) == [i \in 1..Len(rows) |-> rows[i][c]]

CallWeightedCorr ==
    /\ call = "none"
    /\ \E n \in 0..MaxObs : \E rows \in [1..n -> CorrRows] :
        /\ call' = "weighted_corr"
        /\ args' = [x |-> Column(rows, "x"), y |-> Column(rows, "y"),
                    w |-> Column(rows, "w")]
        /\ ret' = weighted_corr(args'.x, args'.y, args'.w)
        /\ out' = <<>>

(* main, Figure 6, with use_weights: the matrix written to
   fig6_correlation_heatmap_data.csv *)
FigureSixCorrelation ==
    /\ call = "none"
    /\ \E n \in 0..MaxFigRows : \E rows \in [1..n -> CorrRows] :
        /\ call' = "main.figure6"
        /\ args' = [x |-> Column(rows, "x"), y |-> Column(rows, "y"),
                    w |-> Column(rows, "w")]
        /\ ret' = SpearmanMatrix([x |-> args'.x, y |-> args'.y], args'.w)
        /\ out' = <<>>

NextCorr == CallWeightedCorr \/ FigureSixCorrelation
SpecCorr == Init /\ [][NextCorr]_vars

IsCorrCall == call = "weighted_corr"
IsFigureSix == call = "main.figure6"
(* a correlation that is defined and lies in [-1, 1] *)
InUnitRange(r) ==
    /\ DOMAIN r = {"sign", "square"}
    /\ r.sign \in {-1, 0, 1}
    /\ RatLeq(r.square, ToRat(1))
One == [sign |-> 1, square |-> ToRat(1)]

(* C16: weighted_corr(x, y, w), whenever it is not NaN, lies in [-1, 1]
   (its square cov^2/(var_x*var_y) is at most 1), and weighted_corr(x, x, w)
   is 1 whenever the weighted variance of x is positive; so do the cells of
   the weighted Spearman matrix, whose diagonal cells are 1 or NaN. *)
C16_CorrelationRange ==
    /\ IsCorrCall =>
           /\ ret # NaN => InUnitRange(ret)
           /\ LET m == Moments3(args.x, args.y, args.w)
              IN  (args.y = args.x /\ m.W > 0 /\ m.Dxx > 0) => ret = One
    /\ IsFigureSix =>
           /\ \A cell \in DOMAIN ret : ret[cell] # NaN => InUnitRange(ret[cell])
           /\ \A c \in {"x", "y"} : ret[<<c, c>>] \in {NaN, One}

(* C16 witness: three rows with unequal weights and a correlation strictly
   between -1 and 0 *)
C16_Witness ==
    /\ IsCorrCall
    /\ Len(args.x) = 3
    /\ \E i, j \in 1..3 : args.w[i] = ToRat(1) /\ args.w[j] = ToRat(2)
    /\ ret # NaN
    /\ ret.sign = -1
    /\ ret.square # ToRat(1)

(* C16 witness of weighted_corr(x, x, w) = 1 *)
C16_WitnessSelf ==
    /\ IsCorrCall
    /\ args.y = args.x
    /\ \E i, j \in 1..Len(args.w) : args.w[i] = ToRat(1) /\ args.w[j] = ToRat(2)
    /\ ret = One

(* rows where both columns and the weight are present *)
ValidRows(c1, c2) == Joint3(args[c1], args[c2], args.w)

(* C17: weighted_corr returns NaN, and does not raise, when fewer than 2
   jointly non-missing triples remain, when the total weight is 0, or when
   the weighted variance of x or of y is 0; a cell of the weighted Spearman
   matrix whose two columns have fewer than 2 jointly valid rows is NaN. *)
C17_CorrelationUndefined ==
    /\ IsCorrCall =>
           LET m == Moments3(args.x, args.y, args.w)
           IN  /\ ret = NaN \/ DOMAIN ret = {"sign", "square"}
               /\ (m.count < 2 \/ m.W = 0 \/ m.Dxx = 0 \/ m.Dyy = 0) => ret = NaN
    /\ IsFigureSix =>
           /\ DOMAIN ret = {"x", "y"} \X {"x", "y"}
           /\ \A cell \in DOMAIN ret :
                  Cardinality(ValidRows(cell[1], cell[2])) < 2 => ret[cell] = NaN

(* C17 witness: three complete rows of positive weight whose y is constant
   while x varies *)
C17_Witness ==
    /\ IsCorrCall
    /\ LET m == Moments3(args.x, args.y, args.w)
       IN  m.count = 3 /\ m.Dxx > 0 /\ m.Dyy = 0
    /\ \A i \in 1..3 : args.w[i].n > 0
    /\ ret = NaN

(* C17 witness in the matrix: x and y are present together in one row only,
   while x has two rows of its own: the diagonal cell is defined and the
   off-diagonal cell is NaN *)
C17_WitnessMatrix ==
    /\ IsFigureSix
    /\ Cardinality(ValidRows("x", "y")) = 1
    /\ ret[<<"x", "x">>] = One
    /\ ret[<<"x", "y">>] = NaN

----------------------------------------------------------------------------
(* plot_descriptives.py, Figure 5: weighted_cohens_d *)

MaxGroup == 2

(* weighted_cohens_d pooling with Kish's effective sample sizes *)
weighted_cohens_d_n_eff(g1_vals, g1_wts, g2_vals, g2_wts) ==
    LET m1 == descriptives_weighted_mean(g1_vals, g1_wts)
        m2 == descriptives_weighted_mean(g2_vals, g2_wts)
        s1 == descriptives_weighted_std(g1_vals, g1_wts)
        s2 == descriptives_weighted_std(g2_vals, g2_wts)
        n1 == weighted_n_eff(Masked(g1_wts, MaskAnd(NotNan(g1_vals), NotNan(g1_wts))))
        n2 == weighted_n_eff(Masked(g2_wts, MaskAnd(NotNan(g2_vals), NotNan(g2_wts))))
        pooled2 == RatDiv(RatAdd(RatMul(RatSub(n1, ToRat(1)), s1.sqrt),
                                 RatMul(RatSub(n2, ToRat(1)), s2.sqrt)),
                          RatSub(RatAdd(n1, n2), ToRat(2)))
    IN  IF IsRaise(m1) THEN m1
        ELSE IF IsRaise(m2) THEN m2
        ELSE IF s1 = NaN \/ s2 = NaN \/ RatAdd(n1, n2) = ToRat(2) THEN ToRat(0)
        ELSE IF pooled2.n > 0 THEN OverSqrt(RatSub(m1, m2), pooled2)
        ELSE ToRat(0)

(* s**2 of s = np.sqrt(variance) is the variance.  An exception of
   weighted_mean propagates.  With an empty group s is nan, and with one
   entry in each group the quotient is 0/0 = nan; then pooled_std is nan,
   nan > 0 is False and 0 is returned *)
weighted_cohens_d(g1_vals, g1_wts, g2_vals, g2_wts) ==
    LET m1 == descriptives_weighted_mean(g1_vals, g1_wts)
        m2 == descriptives_weighted_mean(g2_vals, g2_wts)
        s1 == descriptives_weighted_std(g1_vals, g1_wts)
        s2 == descriptives_weighted_std(g2_vals, g2_wts)
        n1 == MaskSum(MaskAnd(NotNan(g1_vals), NotNan(g1_wts)))
        n2 == MaskSum(MaskAnd(NotNan(g2_vals), NotNan(g2_wts)))
        pooled2 == RatDiv(RatAdd(RatMul(ToRat(n1 - 1), s1.sqrt),
                                 RatMul(ToRat(n2 - 1), s2.sqrt)),
                          ToRat(n1 + n2 - 2))
    IN  IF IsRaise(m1) THEN m1
        ELSE IF IsRaise(m2) THEN m2
        ELSE IF s1 = NaN \/ s2 = NaN \/ n1 + n2 = 2 THEN ToRat(0)
        ELSE IF pooled2.n > 0 THEN OverSqrt(RatSub(m1, m2), pooled2)
        ELSE ToRat(0)

(* Inputs: the entries (value, weight) of a group: the values 0 and 1 with
   weight one, the value 1 with weight two and with weight zero, and entries
   missing the value or the weight *)
GroupEntries ==
    {[v |-> ToRat(0), w |-> ToRat(1)],
     [v |-> ToRat(1), w |-> ToRat(1)],
     [v |-> ToRat(1), w |-> ToRat(2)],
     [v |-> ToRat(1), w |-> ToRat(0)],
     [v |-> NaN, w |-> ToRat(1)],
     [v |-> ToRat(1), w |-> NaN]}
Groups == UNION {[1..n -> GroupEntries] : n \in 0..MaxGroup}

CallWeightedCohensD ==
    /\ call = "none"
    /\ \E g1 \in Groups, g2 \in Groups :
        /\ call' = "weighted_cohens_d"
        /\ args' = [g1_vals |-> Column(g1, "v"), g1_wts |-> Column(g1, "w"),
                    g2_vals |-> Column(g2, "v"), g2_wts |-> Column(g2, "w")]
        /\ ret' = weighted_cohens_d(args'.g1_vals, args'.g1_wts,
                                    args'.g2_vals, args'.g2_wts)
        /\ out' = <<>>

NextCohensD == CallWeightedCohensD
SpecCohensD == Init /\ [][NextCohensD]_vars

(* Reference moments of a group over its jointly valid entries: raw count,
   mean sum(w x)/W and population variance (W*sum(w x^2) - sum(w x)^2)/W^2 *)
GroupMoments(x, w) ==
    LET W == SumW(x, w)
        A == SumWX(x, w)
        Q == SetSum(Joint(x, w), [i \in 1..Len(x) |-> Num(w)[i] * Num(x)[i] * Num(x)[i]])
    IN  [n |-> Cardinality(Joint(x, w)), W |-> W,
         m |-> IF W = 0 THEN NaN ELSE Rat(A, W),
         var |-> IF W = 0 THEN NaN ELSE Rat(W * Q - A * A, W * W)]

(* C18: for two groups of positive total weight with more than two jointly
   valid entries between them, weighted_cohens_d is (m1 - m2)/pooled with
   pooled^2 = ((n1-1)*s1^2 + (n2-1)*s2^2)/(n1+n2-2), m and s the weighted
   mean and weighted population SD of each group and n1, n2 the raw counts
   of jointly valid entries; when the pooled SD is zero it is exactly 0. *)
C18_CohensD ==
    call = "weighted_cohens_d" =>
        LET g1 == GroupMoments(args.g1_vals, args.g1_wts)
            g2 == GroupMoments(args.g2_vals, args.g2_wts)
            pooled2 == RatDiv(RatAdd(RatMul(ToRat(g1.n - 1), g1.var),
                                     RatMul(ToRat(g2.n - 1), g2.var)),
                              ToRat(g1.n + g2.n - 2))
            diff == RatSub(g1.m, g2.m)
        IN  (g1.W > 0 /\ g2.W > 0 /\ g1.n + g2.n > 2) =>
                ret = IF pooled2.n > 0
                      THEN [sign |-> Sign(diff),
                            square |-> RatDiv(RatMul(diff, diff), pooled2)]
                      ELSE ToRat(0)

(* C18 witness: two groups of two entries each, weights 1 and 2 in the
   first (variance 2/9) and equal in the second (variance 1/4), and a
   defined non-zero d *)
C18_Witness ==
    /\ call = "weighted_cohens_d"
    /\ Len(args.g1_vals) = 2 /\ Len(args.g2_vals) = 2
    /\ Cardinality(Joint(args.g1_vals, args.g1_wts)) = 2
    /\ Cardinality(Joint(args.g2_vals, args.g2_wts)) = 2
    /\ args.g1_vals = <<ToRat(0), ToRat(1)>>
    /\ args.g1_wts = <<ToRat(1), ToRat(2)>>
    /\ args.g2_vals = <<ToRat(1), ToRat(0)>>
    /\ args.g2_wts = <<ToRat(1), ToRat(1)>>
    /\ DOMAIN ret = {"sign", "square"}
    /\ ret.sign # 0

(* C18 witness of the zero convention: both groups constant, three entries,
   different means, pooled SD zero *)
C18_WitnessZeroPooled ==
    /\ call = "weighted_cohens_d"
    /\ Cardinality(Joint(args.g1_vals, args.g1_wts)) = 2
    /\ Cardinality(Joint(args.g2_vals, args.g2_wts)) = 1
    /\ SumW(args.g1_vals, args.g1_wts) > 0 /\ SumW(args.g2_vals, args.g2_wts) > 0
    /\ weighted_mean(args.g1_vals, args.g1_wts) # weighted_mean(args.g2_vals, args.g2_wts)
    /\ ret = ToRat(0)

----------------------------------------------------------------------------
(* build_plain_language_summary.py: interpret_effect_size *)

MaxBeta == 60

(* a float comparison: False as soon as one side is nan *)
FloatLt(a, b) == a # NaN /\ b # NaN /\ RatLt(a, b)
(* abs(beta): abs(nan) is nan *)
FloatAbs(v) == IF v = NaN THEN NaN ELSE RatAbs(v)

interpret_effect_size(beta) ==
    LET abs_beta == FloatAbs(beta)
    IN  IF FloatLt(abs_beta, Rat(10, 100)) THEN "negligible"
        ELSE IF FloatLt(abs_beta, Rat(30, 100)) THEN "small"
        ELSE IF FloatLt(abs_beta, Rat(50, 100)) THEN "medium"
        ELSE "large"

(* Inputs: standardized effects in hundredths, of either sign, and the
   missing estimate *)
Beta(k) == Rat(k, 100)
BetaValues == {Beta(k) : k \in -MaxBeta..MaxBeta} \cup {NaN}

CallInterpretEffectSize ==
    /\ call = "none"
    /\ \E beta \in BetaValues :
        /\ call' = "interpret_effect_size"
        /\ args' = [beta |-> beta]
        /\ ret' = interpret_effect_size(beta)
        /\ out' = <<>>

NextEffectSize == CallInterpretEffectSize
SpecEffectSize == Init /\ [][NextEffectSize]_vars

(* |d| >= bound, as a statement about the number d: false of a missing d *)
AbsAtLeast(d, hundredths) == d # NaN /\ RatLeq(Beta(hundredths), RatAbs(d))
AbsBelow(d, hundredths) == d # NaN /\ RatLt(RatAbs(d), Beta(hundredths))

(* C19: interpret_effect_size(d) is "negligible" iff |d| < 0.10, "small" iff
   0.10 <= |d| < 0.30, "medium" iff 0.30 <= |d| < 0.50 and "large" iff
   |d| >= 0.50. *)
C19_TierIffMagnitude ==
    call = "interpret_effect_size" =>
        LET d == args.beta
        IN  /\ ret = "negligible" <=> AbsBelow(d, 10)
            /\ ret = "small" <=> (AbsAtLeast(d, 10) /\ AbsBelow(d, 30))
            /\ ret = "medium" <=> (AbsAtLeast(d, 30) /\ AbsBelow(d, 50))
            /\ ret = "large" <=> AbsAtLeast(d, 50)

(* The tiers of every d that is a number, d and -d alike *)
C19_TiersOfNumbers ==
    (call = "interpret_effect_size" /\ args.beta # NaN) =>
        /\ C19_TierIffMagnitude
        /\ ret = interpret_effect_size(RatNeg(args.beta))

----------------------------------------------------------------------------
(* build_plain_language_summary.py: the findings sections.  The document is
   the sequence of blocks appended to it; the text of a finding is kept as
   the record of the pieces interpolated into its f-string *)

Heading(text, level) == [block |-> "heading", text |-> text, level |-> level]
Paragraph(text) == [block |-> "paragraph", text |-> text]
Blank == [block |-> "blank"]
Finding(label, text) == [block |-> "finding", label |-> label, text |-> text]

(* f"{v:.3f}" *)
Fixed3(v) == IF v = NaN THEN NaN ELSE Round(v, 3)
(* format_apa_stat(est, ci_lower, ci_upper), p left at None *)
format_apa_stat(est, ci_lower, ci_upper) ==
    [est |-> Fixed3(est), ci_lower |-> Fixed3(ci_lower), ci_upper |-> Fixed3(ci_upper)]
ApaOf(row) == format_apa_stat(row.est, row.ci_lower, row.ci_upper)

(* the truth value of a dict returned by get_effect_row, or of None *)
Found(row) == ~IsNone(row)
Positive(v) == FloatLt(ToRat(0), v)
Negative(v) == FloatLt(v, ToRat(0))

generate_rq1_section(boot_df) ==
    LET total == get_effect_row(boot_df, "total_z_mid")
    IN  <<Heading("Research Question 1: Overall Effect of FASt Status", 1),
          Paragraph("RQ1 asked"),
          Blank>>
        \o IF Found(total)
           THEN <<Finding("Finding",
                    [about |-> "total effect",
                     effect_size |-> interpret_effect_size(total.est),
                     sig_text |-> IF total.sig THEN "statistically significant"
                                  ELSE "not statistically significant",
                     stat |-> ApaOf(total),
                     showed |-> IF Positive(total.est) THEN "higher" ELSE "lower"])>>
           ELSE <<Paragraph("Total effect data not available. Run full analysis pipeline.")>>

(* one mediation pathway of RQ2 *)
PathwayBlocks(about, ind, a, b, b_negative_first, missing_text) ==
    IF Found(ind) /\ Found(a) /\ Found(b)
    THEN <<Finding("Finding",
             [about |-> about,
              sig_text |-> IF ind.sig THEN "significant" ELSE "non-significant",
              stat |-> ApaOf(ind),
              a_dir |-> IF Positive(a.est) THEN "increased" ELSE "decreased",
              a_stat |-> ApaOf(a),
              b_dir |-> IF b_negative_first
                        THEN (IF Negative(b.est) THEN "negatively" ELSE "positively")
                        ELSE (IF Positive(b.est) THEN "positively" ELSE "negatively"),
              b_stat |-> ApaOf(b)])>>
    ELSE <<Paragraph(missing_text)>>

generate_rq2_section(boot_df) ==
    LET ind_emo == get_effect_row(boot_df, "ind_EmoDiss_z_mid")
        ind_qual == get_effect_row(boot_df, "ind_QualEngag_z_mid")
        a1 == get_effect_row(boot_df, "a1")
        a2 == get_effect_row(boot_df, "a2")
        b1 == get_effect_row(boot_df, "b1")
        b2 == get_effect_row(boot_df, "b2")
    IN  <<Heading("Research Question 2: Mediation Pathways", 1),
          Paragraph("RQ2 asked"),
          Blank,
          Heading("Emotional Distress Pathway", 2)>>
        \o PathwayBlocks("indirect effect through emotional distress",
                         ind_emo, a1, b1, TRUE,
                         "Emotional distress mediation data not available.")
        \o <<Blank, Heading("Quality of Engagement Pathway", 2)>>
        \o PathwayBlocks("indirect effect through quality of engagement",
                         ind_qual, a2, b2, FALSE,
                         "Quality of engagement mediation data not available.")

(* the paragraph f"Conditional direct effects: At low credit dose ..." with
   the three statistics interpolated into it *)
ConditionalEffects(low, mid, high) ==
    [block |-> "paragraph", text |-> "Conditional direct effects",
     low |-> low, mid |-> mid, high |-> high]

(* one index of moderated mediation of RQ3 *)
IndexBlocks(label, about, imm) ==
    IF Found(imm)
    THEN <<Finding(label,
             [about |-> about,
              sig_text |-> IF imm.sig THEN "significant" ELSE "not significant",
              stat |-> ApaOf(imm),
              vary |-> IF imm.sig THEN "did" ELSE "did not"])>>
    ELSE <<>>

generate_rq3_section(boot_df) ==
    LET dir_low == get_effect_row(boot_df, "dir_z_low")
        dir_mid == get_effect_row(boot_df, "dir_z_mid")
        dir_high == get_effect_row(boot_df, "dir_z_high")
        cz == get_effect_row(boot_df, "cz")
        imm_emo == get_effect_row(boot_df, "index_MM_EmoDiss")
        imm_qual == get_effect_row(boot_df, "index_MM_QualEngag")
    IN  <<Heading("Research Question 3: Moderation by Credit Dose", 1),
          Paragraph("RQ3 asked"),
          Blank,
          Heading("Direct Effect Moderation", 2)>>
        \o (IF Found(cz)
            THEN <<Finding("Finding",
                     [about |-> "direct effect moderation",
                      sig_text |-> IF cz.sig THEN "significant" ELSE "not significant",
                      stat |-> ApaOf(cz)])>>
                 \o IF Found(dir_low) /\ Found(dir_mid) /\ Found(dir_high)
                    THEN <<ConditionalEffects(ApaOf(dir_low), ApaOf(dir_mid),
                                              ApaOf(dir_high))>>
                    ELSE <<>>
            ELSE <<Paragraph("Direct effect moderation data not available.")>>)
        \o <<Blank, Heading("Indirect Effect Moderation (Moderated Mediation)", 2)>>
        \o IndexBlocks("Emotional Distress",
                       "index of moderated mediation through emotional distress", imm_emo)
        \o IndexBlocks("Quality of Engagement",
                       "index of moderated mediation through quality of engagement", imm_qual)
        \o IF ~Found(imm_emo) /\ ~Found(imm_qual)
           THEN <<Paragraph("Index of moderated mediation data not available.")>>
           ELSE <<>>

(* Inputs: bootstrap_results.csv with at most one row per parameter.  A row
   reported with its interval holds an estimate inside an interval that
   excludes zero, contains it, or ends at it, and a sig flag of either value;
   a path coefficient row is positive or negative; any row may be absent *)
CiCells ==
    {[est |-> Beta(20), ci_lower |-> Beta(10), ci_upper |-> Beta(30)],
     [est |-> Beta(20), ci_lower |-> Beta(-10), ci_upper |-> Beta(50)],
     [est |-> Beta(-20), ci_lower |-> Beta(-30), ci_upper |-> Beta(-10)],
     [est |-> Beta(5), ci_lower |-> Beta(0), ci_upper |-> Beta(10)]}
EffectContents ==
    {[est |-> c.est, ci_lower |-> c.ci_lower, ci_upper |-> c.ci_upper, sig |-> g] :
        c \in CiCells, g \in BOOLEAN} \cup {Absent}
PathContents ==
    {[est |-> Beta(20), ci_lower |-> Beta(10), ci_upper |-> Beta(30), sig |-> TRUE],
     [est |-> Beta(-20), ci_lower |-> Beta(-30), ci_upper |-> Beta(-10), sig |-> TRUE],
     Absent}
Presence == {[est |-> Beta(20), ci_lower |-> Beta(10), ci_upper |-> Beta(30), sig |-> TRUE],
             Absent}
BootRow(param, c) ==
    IF IsAbsent(c) THEN Absent
    ELSE [parameter |-> param, est |-> c.est, ci_lower |-> c.ci_lower,
          ci_upper |-> c.ci_upper, sig |-> c.sig]
(* the table read by load_bootstrap_results *)
BootTable(rows) == Some(SelectSeq(rows, LAMBDA r : ~IsAbsent(r)))

GenerateRq1Section ==
    /\ call = "none"
    /\ \E boot_df \in {None} \cup
            {BootTable(<<BootRow("a1", a1), BootRow("total_z_mid", total)>>) :
                a1 \in PathContents, total \in EffectContents} :
        /\ call' = "generate_rq1_section"
        /\ args' = [boot_df |-> boot_df]
        /\ ret' = None
        /\ out' = generate_rq1_section(boot_df)

GenerateRq2Section ==
    /\ call = "none"
    /\ \E boot_df \in {None} \cup
            {BootTable(<<BootRow("a1", a1), BootRow("a2", a2),
                         BootRow("b1", b1), BootRow("b2", b2),
                         BootRow("ind_EmoDiss_z_mid", ind_emo),
                         BootRow("ind_QualEngag_z_mid", ind_qual)>>) :
                a1 \in PathContents, a2 \in PathContents,
                b1 \in PathContents, b2 \in PathContents,
                ind_emo \in EffectContents, ind_qual \in EffectContents} :
        /\ call' = "generate_rq2_section"
        /\ args' = [boot_df |-> boot_df]
        /\ ret' = None
        /\ out' = generate_rq2_section(boot_df)

GenerateRq3Section ==
    /\ call = "none"
    /\ \E boot_df \in {None} \cup
            {BootTable(<<BootRow("cz", cz),
                         BootRow("dir_z_low", dir_low), BootRow("dir_z_mid", dir_mid),
                         BootRow("dir_z_high", dir_high),
                         BootRow("index_MM_EmoDiss", imm_emo),
                         BootRow("index_MM_QualEngag", imm_qual)>>) :
                cz \in EffectContents,
                dir_low \in Presence, dir_mid \in Presence, dir_high \in Presence,
                imm_emo \in EffectContents, imm_qual \in EffectContents} :
        /\ call' = "generate_rq3_section"
        /\ args' = [boot_df |-> boot_df]
        /\ ret' = None
        /\ out' = generate_rq3_section(boot_df)

NextSummary ==
    \/ GenerateRq1Section
    \/ GenerateRq2Section
    \/ GenerateRq3Section

SpecSummary == Init /\ [][NextSummary]_vars

IsSectionCall ==
    call \in {"generate_rq1_section", "generate_rq2_section", "generate_rq3_section"}
(* the parameter whose interval a finding reports next to its wording *)
ReportedLabel(about) ==
    CASE about = "total effect" -> "total_z_mid"
      [] about = "indirect effect through emotional distress" -> "ind_EmoDiss_z_mid"
      [] about = "indirect effect through quality of engagement" -> "ind_QualEngag_z_mid"
      [] about = "direct effect moderation" -> "cz"
      [] about = "index of moderated mediation through emotional distress"
            -> "index_MM_EmoDiss"
      [] about = "index of moderated mediation through quality of engagement"
            -> "index_MM_QualEngag"
SaysSignificant(sig_text) == sig_text \in {"statistically significant", "significant"}
ExcludesZero(row) == Positive(row.ci_lower) \/ Negative(row.ci_upper)

(* C20: in every finding of the RQ1, RQ2 and RQ3 sections the effect is
   worded as significant exactly when the interval [ci_lower, ci_upper] of
   its parameter row excludes 0. *)
C20_SignificantIffCiExcludesZero ==
    IsSectionCall =>
        \A i \in 1..Len(out) :
            out[i].block = "finding" =>
                (SaysSignificant(out[i].text.sig_text)
                    <=> ExcludesZero(get_effect_row(args.boot_df,
                                                    ReportedLabel(out[i].text.about))))

(* The wording follows the sig column of the row *)
C20_WordingFollowsSigColumn ==
    IsSectionCall =>
        \A i \in 1..Len(out) :
            out[i].block = "finding" =>
                (SaysSignificant(out[i].text.sig_text)
                    <=> get_effect_row(args.boot_df,
                                       ReportedLabel(out[i].text.about)).sig)

----------------------------------------------------------------------------
(* Missing rows in the findings sections *)

RowMissing(label) == IsNone(get_effect_row(args.boot_df, label))
AnyRowMissing(labels) == \E l \in labels : RowMissing(l)
HasParagraph(text) ==
    \E i \in 1..Len(out) : out[i].block = "paragraph" /\ out[i].text = text
HasFindingAbout(about) ==
    \E i \in 1..Len(out) : out[i].block = "finding" /\ out[i].text.about = about
(* an outcome with a needed row absent is stated as not available and has no
   finding *)
NotAvailableWhenMissing(labels, statement, about) ==
    AnyRowMissing(labels) => HasParagraph(statement) /\ ~HasFindingAbout(about)

IndexNotAvailable == "Index of moderated mediation data not available."

(* C21: for every outcome of the summary (RQ1 total effect, the two RQ2
   pathways, RQ3 direct-effect moderation with its conditional direct
   effects, RQ3 index of moderated mediation of each mediator), when a row
   the outcome needs is absent a "not available" statement is rendered for
   it and no finding of that outcome is rendered. *)
C21_NotAvailablePerOutcome ==
    /\ call = "generate_rq1_section" =>
        NotAvailableWhenMissing({"total_z_mid"},
            "Total effect data not available. Run full analysis pipeline.",
            "total effect")
    /\ call = "generate_rq2_section" =>
        /\ NotAvailableWhenMissing({"ind_EmoDiss_z_mid", "a1", "b1"},
            "Emotional distress mediation data not available.",
            "indirect effect through emotional distress")
        /\ NotAvailableWhenMissing({"ind_QualEngag_z_mid", "a2", "b2"},
            "Quality of engagement mediation data not available.",
            "indirect effect through quality of engagement")
    /\ call = "generate_rq3_section" =>
        /\ NotAvailableWhenMissing({"cz", "dir_z_low", "dir_z_mid", "dir_z_high"},
            "Direct effect moderation data not available.",
            "direct effect moderation")
        /\ NotAvailableWhenMissing({"index_MM_EmoDiss"}, IndexNotAvailable,
            "index of moderated mediation through emotional distress")
        /\ NotAvailableWhenMissing({"index_MM_QualEngag"}, IndexNotAvailable,
            "index of moderated mediation through quality of engagement")

(* What the sections do: RQ1 and the RQ2 pathways are stated as not available
   when any of their rows is absent; in RQ3 the direct-effect finding depends
   on cz alone and the conditional direct effects are dropped without a
   statement, and the index statement appears only when both indices are
   absent *)
C21_WhatIsRendered ==
    /\ call = "generate_rq1_section" =>
        NotAvailableWhenMissing({"total_z_mid"},
            "Total effect data not available. Run full analysis pipeline.",
            "total effect")
    /\ call = "generate_rq2_section" =>
        /\ NotAvailableWhenMissing({"ind_EmoDiss_z_mid", "a1", "b1"},
            "Emotional distress mediation data not available.",
            "indirect effect through emotional distress")
        /\ NotAvailableWhenMissing({"ind_QualEngag_z_mid", "a2", "b2"},
            "Quality of engagement mediation data not available.",
            "indirect effect through quality of engagement")
    /\ call = "generate_rq3_section" =>
        /\ HasParagraph("Direct effect moderation data not available.")
            <=> RowMissing("cz")
        /\ HasFindingAbout("direct effect moderation") <=> ~RowMissing("cz")
        /\ HasParagraph("Conditional direct effects")
            <=> ~AnyRowMissing({"cz", "dir_z_low", "dir_z_mid", "dir_z_high"})
        /\ HasParagraph(IndexNotAvailable)
            <=> (RowMissing("index_MM_EmoDiss") /\ RowMissing("index_MM_QualEngag"))
        /\ HasFindingAbout("index of moderated mediation through emotional distress")
            <=> ~RowMissing("index_MM_EmoDiss")
        /\ HasFindingAbout("index of moderated mediation through quality of engagement")
            <=> ~RowMissing("index_MM_QualEngag")

----------------------------------------------------------------------------
(* transform-results.py: reading the input files.  A file is Absent
   (filepath.exists() is False) or the table read from it *)

MaxFileRows == 2
DefaultN == 5000

FileExists(file) == ~IsAbsent(file)

(* pd.DataFrame() *)
EmptyFrame == <<>>

parse_parameter_estimates(filepath) ==
    IF ~FileExists(filepath) THEN EmptyFrame ELSE filepath.rows

key_measures ==
    {"chisq", "df", "pvalue", "cfi", "tli", "rmsea", "srmr",
     "cfi.scaled", "tli.scaled", "rmsea.scaled", "cfi.robust", "tli.robust", "rmsea.robust"}

(* key in key_measures and pd.notna(value) *)
IsFitRow(row) == row.key \in key_measures /\ row.value # NaN
(* round(float(value), 4), or str(value) when float() raises *)
FitValue(value) == IF IsRat(value) THEN Round(value, 4) ELSE value
(* the last row that assigns fit[key] *)
LastFitRow(rows, key) ==
    rows[CHOOSE i \in 1..Len(rows) :
            /\ IsFitRow(rows[i]) /\ rows[i].key = key
            /\ \A j \in (i + 1)..Len(rows) : ~(IsFitRow(rows[j]) /\ rows[j].key = key)]

parse_fit_measures(filepath) ==
    IF ~FileExists(filepath) THEN [k \in {} |-> None]
    ELSE LET rows == filepath.rows
             keys == {rows[i].key : i \in {j \in 1..Len(rows) : IsFitRow(rows[j])}}
         IN  [k \in keys |-> FitValue(LastFitRow(rows, k).value)]

(* the loop over ("firstgen", "firstgen"), ("pell", "pell"), ("x_FASt", "fast") *)
BinaryVars == <<"firstgen", "pell", "x_FASt">>
BinaryLabel(var) == IF var = "x_FASt" THEN "fast" ELSE var
(* int(df[var].sum()) *)
YesCount(rows, var) == Cardinality({i \in 1..Len(rows) : rows[i][var] = 1})
(* round(count / n * 100, 1) *)
Pct(count, n) == Round(RatMul(Rat(count, n), ToRat(100)), 1)

(* compute_sample_descriptives on a table whose columns are among the three
   binary variables: the race, sex, transfer-credit and outcome blocks are
   skipped for such a table and "outcomes" stays empty *)
compute_sample_descriptives(data_path) ==
    IF ~FileExists(data_path) THEN [n |-> DefaultN]
    ELSE LET rows == data_path.rows
             n == Len(rows)
             present == {v \in Range(BinaryVars) : v \in data_path.columns}
         IN  IF n = 0 /\ present # {} THEN Raise(ZeroDivisionError)
             ELSE [n |-> n,
                   demographics |->
                       [l \in {BinaryLabel(v) : v \in present} |->
                           LET var == CHOOSE v \in present : BinaryLabel(v) = l
                               yes_count == YesCount(rows, var)
                           IN  [yes |-> [n |-> yes_count, pct |-> Pct(yes_count, n)],
                                no |-> [n |-> n - yes_count,
                                        pct |-> Pct(n - yes_count, n)]]],
                   outcomes |-> [k \in {} |-> None]]

(* Inputs: the files *)
FitKeys == {"cfi", "rmsea", "npar"}
FitCells == {Cell(95012), Cell(4567), NaN, [text |-> "NA"]}
FitRows == {[key |-> k, value |-> v] : k \in FitKeys, v \in FitCells}
DataColumns == SUBSET {"pell", "x_FASt"}

CallParseParameterEstimates ==
    /\ call = "none"
    /\ \E filepath \in {Absent} \cup
            UNION {{[rows |-> r] : r \in Arrays(ParamRows, n)} : n \in 0..MaxFileRows} :
        /\ call' = "parse_parameter_estimates"
        /\ args' = [filepath |-> filepath]
        /\ ret' = parse_parameter_estimates(filepath)
        /\ out' = <<>>

CallParseFitMeasures ==
    /\ call = "none"
    /\ \E filepath \in {Absent} \cup
            UNION {{[rows |-> r] : r \in Arrays(FitRows, n)} : n \in 0..MaxFileRows} :
        /\ call' = "parse_fit_measures"
        /\ args' = [filepath |-> filepath]
        /\ ret' = parse_fit_measures(filepath)
        /\ out' = <<>>

CallComputeSampleDescriptives ==
    /\ call = "none"
    /\ \E data_path \in {Absent} \cup
            UNION {{[columns |-> c, rows |-> r] : r \in Arrays([c -> {0, 1}], n)} :
                        c \in DataColumns, n \in 0..MaxFileRows} :
        /\ call' = "compute_sample_descriptives"
        /\ args' = [data_path |-> data_path]
        /\ ret' = compute_sample_descriptives(data_path)
        /\ out' = <<>>

NextTransform ==
    \/ CallParseParameterEstimates
    \/ CallParseFitMeasures
    \/ CallComputeSampleDescriptives
    \/ CallComputeDoseEffects

SpecTransform == Init /\ [][NextTransform]_vars

----------------------------------------------------------------------------
(* Missing inputs of the transform functions *)

FileMissing == call # "none" /\ "filepath" \in DOMAIN args /\ ~FileExists(args.filepath)
DataMissing == call = "compute_sample_descriptives" /\ ~FileExists(args.data_path)
MissingCoefficients == IsDoseCall /\ ~IsNone(ret.validation)
(* the numbers of the path list passed to compute_dose_effects *)
InputNumbers ==
    {args.main_paths[i].estimate : i \in 1..Len(args.main_paths)}
    \cup {args.main_paths[i].se : i \in 1..Len(args.main_paths)}
(* the numbers a dose result carries besides its dose grid *)
CoefficientNumbers ==
    {ret.coefficients[o][f] : o \in Outcomes, f \in {"main", "moderation", "se"}} \ {None}
JohnsonNeymanNumbers ==
    {ret.johnsonNeymanPoints.distress.lower, ret.johnsonNeymanPoints.distress.upper,
     ret.johnsonNeymanPoints.engagement.crossover} \ {None}

(* C22: on a missing input no number is made up: an absent parameter file
   gives an empty table and an empty path list, an absent fit file gives {},
   an absent observation file gives a result without a sample size or
   statistic, and a missing-coefficient dose result carries no number that
   was not read from the input table. *)
C22_NoFabricatedNumber ==
    /\ (call = "parse_parameter_estimates" /\ FileMissing) =>
        /\ ret = <<>>
        /\ \A key_paths \in KeyPathArgs : extract_key_paths(ret, key_paths) = <<>>
    /\ (call = "parse_fit_measures" /\ FileMissing) => DOMAIN ret = {}
    /\ DataMissing => "n" \notin DOMAIN ret
    /\ MissingCoefficients =>
        /\ ret.effects = <<>>
        /\ CoefficientNumbers \cup JohnsonNeymanNumbers \subseteq InputNumbers

(* What the functions return on a missing input: the empty table, path list
   and fit, the coefficients as read, and two literals: a sample size of
   5000 and an engagement crossover of 15.2 *)
C22_WhatIsReturned ==
    /\ (call = "parse_parameter_estimates" /\ FileMissing) =>
        /\ ret = <<>>
        /\ \A key_paths \in KeyPathArgs : extract_key_paths(ret, key_paths) = <<>>
    /\ (call = "parse_fit_measures" /\ FileMissing) => DOMAIN ret = {}
    /\ DataMissing => ret = [n |-> DefaultN]
    /\ MissingCoefficients =>
        /\ ret.effects = <<>>
        /\ CoefficientNumbers \subseteq InputNumbers
        /\ JohnsonNeymanNumbers = {Rat(152, 10)}

----------------------------------------------------------------------------
(* plot_descriptives.py, plot_deep_cuts.py: main up to the weighting setup.
   A table is its set of columns and its rows (column -> value) *)

required_cols ==
    {"re_all", "firstgen", "pell", "sex", "x_FASt", "trnsfr_cr", "credit_dose", "cohort",
     "MHWdacad", "MHWdlonely", "MHWdmental", "MHWdexhaust", "MHWdsleep", "MHWdfinancial",
     "QIstudent", "QIadvisor", "QIfaculty", "QIstaff", "QIadmin",
     "sbvalued", "sbmyself", "sbcommunity", "pgthink", "pganalyze", "pgwork", "pgvalues",
     "pgprobsolve", "SEwellness", "SEnonacad", "SEactivities", "SEacademic", "SEdiverse",
     "evalexp", "sameinst"}

(* ensure_columns(df, cols): df[col] = np.nan for every col not in df.columns *)
ensure_columns(df, cols) ==
    [columns |-> df.columns \cup cols,
     rows |-> [i \in 1..Len(df.rows) |->
                 [c \in df.columns \cup cols |->
                     IF c \in df.columns THEN df.rows[i][c] ELSE NaN]]]

(* df[col].values *)
ColumnValues(df, col) == [i \in 1..Len(df.rows) |-> df.rows[i][col]]
(* np.ones(len(df)) *)
NpOnes(n) == [i \in 1..n |-> ToRat(1)]

(* the weighting setup, on the table as main holds it at that point *)
SetupWeighting(df, weight_col) ==
    LET use_weights == ~IsNone(weight_col) /\ weight_col.some \in df.columns
    IN  [use_weights |-> use_weights,
         w |-> IF use_weights THEN ColumnValues(df, weight_col.some)
               ELSE NpOnes(Len(df.rows)),
         printed |-> IF use_weights THEN "Using PSW weights from column"
                     ELSE IF ~IsNone(weight_col)
                          THEN "Weight column not found, using unweighted"
                          ELSE "Using unweighted statistics"]

(* plot_descriptives.main: read_csv, ensure_columns, weighting setup *)
descriptives_setup(data, weight_col) ==
    SetupWeighting(ensure_columns(data, required_cols), weight_col)
(* plot_deep_cuts.main: read_csv, weighting setup *)
deep_cuts_setup(data, weight_col) == SetupWeighting(data, weight_col)

(* Inputs: a file with or without a weight column "psw" and the analysis
   column "cohort"; the caller names no column, one of them, or another *)
FileColumns == SUBSET {"psw", "cohort"}
CellValues == {ToRat(1), ToRat(2)}
DataFiles ==
    UNION {{[columns |-> c, rows |-> r] : r \in Arrays([c -> CellValues], n)} :
                c \in FileColumns, n \in 0..MaxFileRows}
WeightColArgs == {None, Some("psw"), Some("cohort"), Some("weight")}

DescriptivesMain ==
    /\ call = "none"
    /\ \E data \in DataFiles, weight_col \in WeightColArgs :
        /\ call' = "descriptives.main"
        /\ args' = [data |-> data, weight_col |-> weight_col]
        /\ ret' = descriptives_setup(data, weight_col)
        /\ out' = <<>>

DeepCutsMain ==
    /\ call = "none"
    /\ \E data \in DataFiles, weight_col \in WeightColArgs :
        /\ call' = "deep_cuts.main"
        /\ args' = [data |-> data, weight_col |-> weight_col]
        /\ ret' = deep_cuts_setup(data, weight_col)
        /\ out' = <<>>

NextWeighting == DescriptivesMain \/ DeepCutsMain
SpecWeighting == Init /\ [][NextWeighting]_vars

IsMainCall == call \in {"descriptives.main", "deep_cuts.main"}
(* a name is given and the observation table read from the file has it *)
ColumnSupplied == ~IsNone(args.weight_col) /\ args.weight_col.some \in args.data.columns
UnitWeights == ret.w = NpOnes(Len(args.data.rows)) /\ ~ret.use_weights
SuppliedWeights ==
    ret.w = ColumnValues(args.data, args.weight_col.some) /\ ret.use_weights

(* C23: with no weight column name, or a name whose column is absent from
   the observation table, both entry points use unit weights of the table's
   length and label the output unweighted; the supplied column is the weight
   vector iff a name is given and the column exists. *)
C23_UnitWeightsWhenAbsent ==
    IsMainCall =>
        /\ ~ColumnSupplied => UnitWeights
        /\ ColumnSupplied => SuppliedWeights

(* plot_deep_cuts decides on the file's columns; plot_descriptives decides
   after ensure_columns has added every absent required column as NaN *)
C23_ColumnsAtSetup ==
    /\ call = "deep_cuts.main" =>
        /\ ~ColumnSupplied => UnitWeights
        /\ ColumnSupplied => SuppliedWeights
    /\ call = "descriptives.main" =>
        LET named == ~IsNone(args.weight_col)
            filled == named /\ ~ColumnSupplied /\ args.weight_col.some \in required_cols
        IN  /\ (~ColumnSupplied /\ ~filled) => UnitWeights
            /\ ColumnSupplied => SuppliedWeights
            /\ filled => /\ ret.use_weights
                         /\ ret.w = [i \in 1..Len(args.data.rows) |-> NaN]

----------------------------------------------------------------------------
(* plot_deep_cuts.py, plot_descriptives.py: weighted_value_counts.  The
   result Series is the sequence of its (index, value) pairs *)

MaxCount == 3

(* the keys of a grouping in order of first appearance *)
RECURSIVE GroupKeysByAppearance(_)
GroupKeysByAppearance(vals) ==
    IF vals = <<>> THEN <<>>
    ELSE LET rest == GroupKeysByAppearance(SubSeq(vals, 1, Len(vals) - 1))
             last == vals[Len(vals)]
         IN  IF last \in Range(rest) THEN rest ELSE Append(rest, last)

(* groupby('val'): sort=True by default, the keys come out ascending *)
RECURSIVE GroupKeys(_)
GroupKeys(vals) ==
    IF vals = <<>> THEN <<>>
    ELSE LET least == CHOOSE a \in Range(vals) : \A b \in Range(vals) : RatLeq(a, b)
         IN  <<least>> \o GroupKeys(SelectSeq(vals, LAMBDA v : v # least))

(* result / result.sum(); 0/0 is nan, the weights being non-negative *)
Normalized(result) ==
    LET total == NpSum([i \in 1..Len(result) |-> result[i].w])
    IN  [i \in 1..Len(result) |->
            [val |-> result[i].val,
             w |-> IF total.n = 0 THEN NaN ELSE RatDiv(result[i].w, total)]]

weighted_value_counts(series, weights, normalize) ==
    LET mask == MaskAnd(NotNan(series), NotNan(weights))
        val == Masked(series, mask)
        w == Masked(weights, mask)
        keys == GroupKeys(val)
        result == [k \in 1..Len(keys) |->
                     [val |-> keys[k],
                      w |-> NpSum(Masked(w, [i \in 1..Len(val) |-> val[i] = keys[k]]))]]
    IN  IF normalize THEN Normalized(result) ELSE result

(* plot_descriptives.py has the same function text *)
descriptives_weighted_value_counts(series, weights, normalize) ==
    weighted_value_counts(series, weights, normalize)

(* Inputs: records with category 1, 2 or missing and weight 0, 1, 2 or
   missing, in any order *)
CountEntries ==
    {[val |-> v, w |-> q] : v \in {ToRat(1), ToRat(2), NaN},
                            q \in {ToRat(0), ToRat(1), ToRat(2), NaN}}

CallWeightedValueCounts ==
    /\ call = "none"
    /\ \E n \in 0..MaxCount : \E rows \in Arrays(CountEntries, n), normalize \in BOOLEAN :
        /\ call' = "weighted_value_counts"
        /\ args' = [series |-> [i \in 1..n |-> rows[i].val],
                    weights |-> [i \in 1..n |-> rows[i].w],
                    normalize |-> normalize]
        /\ ret' = weighted_value_counts([i \in 1..n |-> rows[i].val],
                                        [i \in 1..n |-> rows[i].w], normalize)
        /\ out' = <<>>

CallDescriptivesWeightedValueCounts ==
    /\ call = "none"
    /\ \E n \in 0..MaxCount : \E rows \in Arrays(CountEntries, n), normalize \in BOOLEAN :
        /\ call' = "descriptives.weighted_value_counts"
        /\ args' = [series |-> [i \in 1..n |-> rows[i].val],
                    weights |-> [i \in 1..n |-> rows[i].w],
                    normalize |-> normalize]
        /\ ret' = descriptives_weighted_value_counts([i \in 1..n |-> rows[i].val],
                                                     [i \in 1..n |-> rows[i].w], normalize)
        /\ out' = <<>>

NextCounts == CallWeightedValueCounts \/ CallDescriptivesWeightedValueCounts
SpecCounts == Init /\ [][NextCounts]_vars

IsCountsCall == call \in {"weighted_value_counts", "descriptives.weighted_value_counts"}
(* the records that have both the category and the weight *)
Counted == Joint(args.series, args.weights)
Categories == {args.series[i] : i \in Counted}
CategoryWeight(c) ==
    SetSum({i \in Counted : args.series[i] = c}, Num(args.weights))
TotalWeight == SetSum(Counted, Num(args.weights))
(* every distinct category once, with its summed weight, over the total when
   normalize is set *)
CountsPerCategory ==
    /\ Len(ret) = Cardinality(Categories)
    /\ {ret[k].val : k \in 1..Len(ret)} = Categories
    /\ \A k \in 1..Len(ret) :
        ret[k].w = IF ~args.normalize THEN ToRat(CategoryWeight(ret[k].val))
                   ELSE IF TotalWeight = 0 THEN NaN
                   ELSE Rat(CategoryWeight(ret[k].val), TotalWeight)
SumsToOne == NpSum([k \in 1..Len(ret) |-> ret[k].w]) = ToRat(1)
(* position of the first record of category c *)
FirstAppearance(c) ==
    CHOOSE i \in Counted : args.series[i] = c /\ \A j \in Counted : args.series[j] = c => i <= j

(* C24 as stated: per-category weight sums over the jointly present records,
   with normalize values that sum to 1, categories in order of first
   appearance in the data. *)
C24_AppearanceOrder ==
    IsCountsCall =>
        /\ CountsPerCategory
        /\ args.normalize => SumsToOne
        /\ \A k, l \in 1..Len(ret) :
            k < l => FirstAppearance(ret[k].val) < FirstAppearance(ret[l].val)

(* C24: weighted_value_counts returns, for each distinct category of the
   records that have both category and weight, the sum of their weights;
   with normalize each sum is divided by the total, the values summing to 1
   when the total weight is positive and all being NaN when it is zero;
   categories appear in ascending order of category value. *)
C24_SortedCounts ==
    IsCountsCall =>
        /\ CountsPerCategory
        /\ (args.normalize /\ TotalWeight > 0) => SumsToOne
        /\ \A k, l \in 1..Len(ret) : k < l => RatLt(ret[k].val, ret[l].val)

(* category 2 appears before category 1 and the result lists 1 first *)
C24_Witness ==
    /\ IsCountsCall
    /\ args.series = <<ToRat(2), ToRat(1), ToRat(2)>>
    /\ args.weights = <<ToRat(1), ToRat(2), ToRat(1)>>
    /\ args.normalize
    /\ ret = <<[val |-> ToRat(1), w |-> Rat(1, 2)], [val |-> ToRat(2), w |-> Rat(1, 2)]>>

----------------------------------------------------------------------------
(* Uniform weights *)

(* all weights equal and positive *)
UniformWeights(w) ==
    \A i \in 1..Len(w) : w[i] # NaN /\ w[i].n > 0 /\ w[i] = w[1]
(* the non-missing values, their count, sum and sum of squares *)
NonMissing(x) == {i \in 1..Len(x) : x[i] # NaN}
CountOf(x) == Cardinality(NonMissing(x))
SumOf(x) == SetSum(NonMissing(x), Num(x))
SumSqOf(x) == SetSum(NonMissing(x), [i \in 1..Len(x) |-> Num(x)[i] * Num(x)[i]])
(* arithmetic mean, population SD and SD/sqrt(n) of the non-missing values;
   of no value they are NaN *)
ArithmeticMean(x) == IF CountOf(x) = 0 THEN NaN ELSE Rat(SumOf(x), CountOf(x))
PopulationVar(x) ==
    Rat(CountOf(x) * SumSqOf(x) - SumOf(x) * SumOf(x), CountOf(x) * CountOf(x))
PopulationSD(x) == IF CountOf(x) = 0 THEN NaN ELSE NpSqrt(PopulationVar(x))
SDOverRootN(x) ==
    IF CountOf(x) = 0 THEN NaN
    ELSE NpSqrt(RatDiv(PopulationVar(x), ToRat(CountOf(x))))

UniformCall == IsMeanCall /\ UniformWeights(args.w)

(* C25 as stated: under uniform weights weighted_mean, weighted_std and
   weighted_sem of both modules equal the arithmetic mean, the population SD
   and SD/sqrt(n) of the non-missing values. *)
C25_UniformEqualsUnweighted ==
    UniformCall =>
        /\ ret = ArithmeticMean(args.x)
        /\ weighted_std(args.x, args.w) = PopulationSD(args.x)
        /\ descriptives_weighted_std(args.x, args.w) = PopulationSD(args.x)
        /\ weighted_sem(args.x, args.w) = SDOverRootN(args.x)
        /\ descriptives_weighted_sem(args.x, args.w) = SDOverRootN(args.x)

(* C25: under uniform weights weighted_mean and weighted_std of both modules
   equal the arithmetic mean and the population SD of the non-missing
   values; weighted_sem of both modules equals SD/sqrt(n) when there are at
   least two non-missing values and is NaN with one or none. *)
C25_UniformEqualsUnweightedFromTwo ==
    UniformCall =>
        /\ ret = ArithmeticMean(args.x)
        /\ weighted_std(args.x, args.w) = PopulationSD(args.x)
        /\ descriptives_weighted_std(args.x, args.w) = PopulationSD(args.x)
        /\ weighted_sem(args.x, args.w)
             = IF CountOf(args.x) >= 2 THEN SDOverRootN(args.x) ELSE NaN
        /\ descriptives_weighted_sem(args.x, args.w)
             = IF CountOf(args.x) >= 2 THEN SDOverRootN(args.x) ELSE NaN

(* three values under the uniform weight 2: mean 2/3, SD sqrt(2/9), SEM
   sqrt(2/27) *)
C25_Witness ==
    /\ call = "weighted_mean"
    /\ args.x = <<ToRat(0), ToRat(1), ToRat(1)>>
    /\ args.w = <<ToRat(2), ToRat(2), ToRat(2)>>
    /\ ret = Rat(2, 3)
    /\ weighted_std(args.x, args.w) = NpSqrt(Rat(2, 9))
    /\ descriptives_weighted_sem(args.x, args.w) = NpSqrt(Rat(2, 27))

----------------------------------------------------------------------------
(* Rescaled weights *)

(* c * w *)
Scaled(c, w) == [i \in 1..Len(w) |-> IF w[i] = NaN THEN NaN ELSE RatMul(c, w[i])]
ScaleFactors == {Rat(1, 2), ToRat(3)}

NextScale == CallWeightedMean
SpecScale == Init /\ [][NextScale]_vars

(* C26: weighted_mean(x, c*w) = weighted_mean(x, w) for every constant c > 0
   and every input with positive total weight. *)
C26_ScaleInvariantMean ==
    (call = "weighted_mean" /\ SumW(args.x, args.w) > 0) =>
        \A c \in ScaleFactors :
            weighted_mean(args.x, Scaled(c, args.w)) = ret

(* weights 1, 2 sum to 3; times 3 they sum to 9, times 1/2 to 3/2, and the
   mean stays 2/3 *)
C26_Witness ==
    /\ call = "weighted_mean"
    /\ args.x = <<ToRat(0), ToRat(1)>>
    /\ args.w = <<ToRat(1), ToRat(2)>>
    /\ ret = Rat(2, 3)
    /\ weighted_mean(args.x, <<ToRat(3), ToRat(6)>>) = Rat(2, 3)
    /\ Scaled(Rat(1, 2), args.w) = <<Rat(1, 2), ToRat(1)>>

----------------------------------------------------------------------------
(* A run that loads the tables once and then calls extract_key_paths,
   get_effect_row and compute_dose_effects on them in any order.  args holds
   the objects the caller passes by reference and the module global
   KEY_PATHS (objects), next to a copy taken at load time (loaded); out is
   the log of the calls made, each with its inputs and output by value *)

MaxCalls == 3

(* extract_key_paths that removes the labels it has matched from the list of
   wanted keys it was given *)
ExtractKeyPathsConsumingKeys(objects, key_paths) ==
    LET active_keys == IF ~IsNone(key_paths) THEN key_paths.some ELSE objects.KEY_PATHS
        paths == extract_key_paths(objects.params, Some(active_keys))
        found == {paths[i].id : i \in 1..Len(paths)}
    IN  [ret |-> paths,
         objects |-> IF IsNone(key_paths)
                     THEN [objects EXCEPT !.KEY_PATHS =
                               SelectSeq(active_keys, LAMBDA k : k \notin found)]
                     ELSE objects]

(* extract_key_paths(params, key_paths) on the loaded table: the filtered
   frame is a copy, paths is a new list, active_keys is only read (the global
   KEY_PATHS when key_paths is None); nothing is assigned to params,
   key_paths or KEY_PATHS *)
ExtractKeyPathsOn(objects, key_paths) ==
    LET active_keys == IF ~IsNone(key_paths) THEN key_paths.some ELSE objects.KEY_PATHS
    IN  [ret |-> extract_key_paths(objects.params, Some(active_keys)),
         objects |-> objects]

(* get_effect_row(df, param): the selection is a new frame and to_dict() a
   new dict *)
GetEffectRowOn(objects, param) ==
    [ret |-> get_effect_row(objects.df, param), objects |-> objects]

(* compute_dose_effects(main_paths): get_path returns elements of the list,
   which are only read; the result is built from new dicts and lists *)
ComputeDoseEffectsOn(objects) ==
    [ret |-> compute_dose_effects(objects.main_paths), objects |-> objects]

(* Inputs: what was loaded *)
SessionParams ==
    {<<>>,
     <<[label |-> "a1", op |-> "~", est |-> Cell(14), se |-> Cell(26)]>>,
     <<[label |-> "a1", op |-> "~", est |-> Cell(14), se |-> Cell(26)],
       [label |-> "a2z", op |-> "~", est |-> Cell(16), se |-> NaN]>>,
     <<[label |-> "a1", op |-> "~", est |-> Cell(14), se |-> Cell(26)],
       [label |-> "a1", op |-> "~", est |-> Cell(16), se |-> Cell(14)]>>}
SessionBoot ==
    {None, Some(<<>>),
     Some(<<[parameter |-> "a1", est |-> Cell(14)],
            [parameter |-> "total_z_mid", est |-> Cell(16)]>>)}
SessionRow == [estimate |-> Est(1), se |-> Est(1)]
SessionPaths ==
    {<<>>,
     MainPaths([main |-> SessionRow, moderation |-> SessionRow],
               [main |-> SessionRow, moderation |-> SessionRow],
               [main |-> SessionRow, moderation |-> SessionRow]),
     MainPaths([main |-> SessionRow, moderation |-> SessionRow],
               [main |-> SessionRow, moderation |-> Absent],
               [main |-> SessionRow, moderation |-> SessionRow])}

InSession == call = "session" /\ Len(out) < MaxCalls

LoadTables ==
    /\ call = "none"
    /\ \E params \in SessionParams, df \in SessionBoot, main_paths \in SessionPaths :
        LET objects == [params |-> params, df |-> df, main_paths |-> main_paths,
                        KEY_PATHS |-> KEY_PATHS]
        IN  /\ call' = "session"
            /\ args' = [loaded |-> objects, objects |-> objects]
            /\ ret' = None
            /\ out' = <<>>

SessionExtractKeyPaths ==
    /\ InSession
    /\ \E key_paths \in KeyPathArgs :
        LET r == ExtractKeyPathsOn(args.objects, key_paths)
        IN  /\ ret' = r.ret
            /\ args' = [args EXCEPT !.objects = r.objects]
            /\ out' = Append(out, [fn |-> "extract_key_paths",
                                   input |-> [params |-> args.objects.params,
                                              key_paths |-> key_paths],
                                   output |-> r.ret])
            /\ UNCHANGED call

SessionGetEffectRow ==
    /\ InSession
    /\ \E param \in BootParams :
        LET r == GetEffectRowOn(args.objects, param)
        IN  /\ ret' = r.ret
            /\ args' = [args EXCEPT !.objects = r.objects]
            /\ out' = Append(out, [fn |-> "get_effect_row",
                                   input |-> [df |-> args.objects.df, param |-> param],
                                   output |-> r.ret])
            /\ UNCHANGED call

SessionComputeDoseEffects ==
    /\ InSession
    /\ LET r == ComputeDoseEffectsOn(args.objects)
       IN  /\ ret' = r.ret
           /\ args' = [args EXCEPT !.objects = r.objects]
           /\ out' = Append(out, [fn |-> "compute_dose_effects",
                                  input |-> [main_paths |-> args.objects.main_paths],
                                  output |-> r.ret])
           /\ UNCHANGED call

NextSession ==
    \/ LoadTables
    \/ SessionExtractKeyPaths
    \/ SessionGetEffectRow
    \/ SessionComputeDoseEffects

SpecSession == Init /\ [][NextSession]_vars

(* two logged calls of the same function on equal inputs *)
SameCall(i, j) == out[i].fn = out[j].fn /\ out[i].input = out[j].input

(* C27: extract_key_paths, get_effect_row and compute_dose_effects leave the
   table or path list passed in (and the module's KEY_PATHS) as it was
   loaded, and any two calls of one function with identical inputs, in any
   order and with other calls in between, return identical outputs. *)
C27_StatelessPure ==
    call = "session" =>
        /\ args.objects = args.loaded
        /\ \A i, j \in 1..Len(out) : SameCall(i, j) => out[i].output = out[j].output

(* extract_key_paths twice on the same table with a compute_dose_effects
   call in between, both returning the one a1 record *)
C27_Witness ==
    /\ call = "session"
    /\ Len(out) = 3
    /\ out[1].fn = "extract_key_paths" /\ out[3].fn = "extract_key_paths"
    /\ out[2].fn = "compute_dose_effects"
    /\ SameCall(1, 3)
    /\ IsNone(out[1].input.key_paths)
    /\ Len(out[1].output) = 1 /\ out[1].output[1].id = "a1"
    /\ out[3].output = out[1].output
    /\ ~IsNone(out[2].output.validation)

----------------------------------------------------------------------------
(* sync_run_to_webapp.py: update_runs_index.  runs_index.json is kept in out
   (its list of entries) and args.exists; args.start is the index the run of
   calls started from and args.synced the manifests synced so far.
   Timestamps are strings compared by sort(); they are numbered here in
   their string order *)

MaxSyncs == 3
MaxTime == 2

(* new_entry *)
NewEntry(manifest) ==
    [run_id |-> manifest.run_id,
     timestamp |-> manifest.timestamp,
     label |-> manifest.mode \o " - " \o manifest.run_id,
     manifest_path |-> manifest.run_id \o "/manifest.json"]

(* runs.sort(key=timestamp, reverse=True): stable, entries with equal
   timestamps keep their order *)
RECURSIVE SortNewestFirst(_)
SortNewestFirst(runs) ==
    IF runs = <<>> THEN <<>>
    ELSE LET sorted == SortNewestFirst(SubSeq(runs, 1, Len(runs) - 1))
             last == runs[Len(runs)]
             ahead == SelectSeq(sorted, LAMBDA r : r.timestamp >= last.timestamp)
             behind == SelectSeq(sorted, LAMBDA r : r.timestamp < last.timestamp)
         IN  ahead \o <<last>> \o behind

(* update_runs_index that leaves the new entry at the head of the list *)
update_runs_index_unsorted(exists, runs_in_file, manifest) ==
    LET runs == IF exists THEN runs_in_file ELSE <<>>
        kept == SelectSeq(runs, LAMBDA r : r.run_id # manifest.run_id)
    IN  <<NewEntry(manifest)>> \o kept

(* the list written back to runs_index.json *)
update_runs_index(exists, runs_in_file, manifest) ==
    LET runs == IF exists THEN runs_in_file ELSE <<>>
        kept == SelectSeq(runs, LAMBDA r : r.run_id # manifest.run_id)
    IN  SortNewestFirst(<<NewEntry(manifest)>> \o kept)

(* Inputs: manifests of two runs, and the index before the first call:
   absent, empty, or a valid list *)
Manifests ==
    {[run_id |-> r, timestamp |-> t, mode |-> m] :
        r \in {"run_a", "run_b"}, t \in 1..MaxTime, m \in {"main", "total"}}
StartIndexes ==
    {Absent,
     [runs |-> <<>>],
     [runs |-> <<NewEntry([run_id |-> "run_a", timestamp |-> 1, mode |-> "main"])>>],
     [runs |-> <<NewEntry([run_id |-> "run_b", timestamp |-> 2, mode |-> "main"]),
                 NewEntry([run_id |-> "run_c", timestamp |-> 1, mode |-> "main"])>>]}

OpenIndex ==
    /\ call = "none"
    /\ \E start \in StartIndexes :
        /\ call' = "runs_index"
        /\ args' = [exists |-> ~IsAbsent(start), start |-> start, synced |-> <<>>]
        /\ ret' = None
        /\ out' = IF IsAbsent(start) THEN <<>> ELSE start.runs

UpdateRunsIndex ==
    /\ call = "runs_index"
    /\ Len(args.synced) < MaxSyncs
    /\ \E manifest \in Manifests :
        /\ out' = update_runs_index(args.exists, out, manifest)
        /\ args' = [args EXCEPT !.exists = TRUE, !.synced = Append(@, manifest)]
        /\ UNCHANGED <<call, ret>>

NextIndex == OpenIndex \/ UpdateRunsIndex
SpecIndex == Init /\ [][NextIndex]_vars

(* the run_ids of the starting index and of the manifests synced *)
StartRuns == IF IsAbsent(args.start) THEN <<>> ELSE args.start.runs
EverSynced == {args.synced[i].run_id : i \in 1..Len(args.synced)}
EverIndexed == EverSynced \cup {StartRuns[i].run_id : i \in 1..Len(StartRuns)}
(* the manifest of the most recent sync of a run_id *)
LastSync(run_id) ==
    args.synced[CHOOSE i \in 1..Len(args.synced) :
                    /\ args.synced[i].run_id = run_id
                    /\ \A j \in (i + 1)..Len(args.synced) : args.synced[j].run_id # run_id]

(* C28: after any sequence of update_runs_index calls from an absent or
   valid index, runs_index.json has at most one entry per run_id, which for
   a synced run_id is the entry of its most recent sync, has an entry for
   every run_id ever synced, and its timestamps are non-increasing down the
   list. *)
C28_IndexDedupedNewestFirst ==
    call = "runs_index" =>
        /\ \A i, j \in 1..Len(out) : out[i].run_id = out[j].run_id => i = j
        /\ {out[i].run_id : i \in 1..Len(out)} = EverIndexed
        /\ \A i \in 1..Len(out) :
            out[i].run_id \in EverSynced => out[i] = NewEntry(LastSync(out[i].run_id))
        /\ \A i, j \in 1..Len(out) : i < j => out[i].timestamp >= out[j].timestamp

(* run_a synced, then the newer run_b, then run_a again with its old
   timestamp: one entry each, run_b first, run_a's entry from the last sync *)
C28_Witness ==
    /\ call = "runs_index"
    /\ IsAbsent(args.start)
    /\ args.synced = <<[run_id |-> "run_a", timestamp |-> 1, mode |-> "main"],
                       [run_id |-> "run_b", timestamp |-> 2, mode |-> "main"],
                       [run_id |-> "run_a", timestamp |-> 1, mode |-> "total"]>>
    /\ out = <<NewEntry([run_id |-> "run_b", timestamp |-> 2, mode |-> "main"]),
               NewEntry([run_id |-> "run_a", timestamp |-> 1, mode |-> "total"])>>

----------------------------------------------------------------------------
(* run_python_stage.py: main and build_tables, one step per script run.
   call is the position in main; args holds the command line and what is on
   disk; out holds the scripts run so far with their exit codes (ran), the
   list build_tables is filling (produced), the manifest in memory and the
   manifest file as last saved *)

MaxExit == 1

(* subprocess exit codes: 0 is success *)
ExitCodes == 0..MaxExit

(* run_script: True iff result.returncode == 0 *)
run_script(returncode) == returncode = 0

(* build_tables giving up at the first script that fails *)
AfterScriptStopOnFailure(position, ok) ==
    IF ~ok THEN "build_tables:return"
    ELSE IF position = "build_tables:bootstrap" THEN "build_tables:dissertation"
    ELSE IF position = "build_tables:dissertation" THEN "build_tables:plain_language"
    ELSE "build_tables:return"

(* where build_tables goes after a script: to the next one, whatever
   run_script returned *)
AfterScript(position, ok) ==
    IF position = "build_tables:bootstrap" THEN "build_tables:dissertation"
    ELSE IF position = "build_tables:dissertation" THEN "build_tables:plain_language"
    ELSE "build_tables:return"

(* if run_script(cmd, description): produced.append(document) *)
RunTableScript(state, description, document, returncode) ==
    [state EXCEPT
        !.ran = Append(@, [description |-> description, returncode |-> returncode]),
        !.produced = IF run_script(returncode) THEN Append(@, document) ELSE @]

(* Inputs: the manifest's artifacts.tables as the R pipeline left it *)
TablesBefore == {None, Some(<<"Old_Tables.docx">>)}
FigureLists == {<<>>, <<"fig1_demographics.png">>}

StartMain ==
    /\ call = "none"
    /\ \E skip_tables \in BOOLEAN, boot_params_exists \in BOOLEAN, tables \in TablesBefore :
        /\ call' = IF skip_tables THEN "main:figures" ELSE "build_tables:bootstrap"
        /\ args' = [skip_tables |-> skip_tables, boot_params_exists |-> boot_params_exists]
        /\ ret' = None
        /\ out' = [ran |-> <<>>, produced |-> <<>>,
                   manifest |-> [tables |-> tables, figures |-> None, webapp_json |-> None],
                   saved |-> None]

BootstrapTables ==
    /\ call = "build_tables:bootstrap"
    /\ IF args.boot_params_exists
       THEN \E returncode \in ExitCodes :
                /\ out' = RunTableScript(out, "Bootstrap Tables", "Bootstrap_Tables.docx",
                                         returncode)
                /\ call' = AfterScript(call, run_script(returncode))
       ELSE /\ out' = out
            /\ call' = "build_tables:dissertation"
    /\ UNCHANGED <<args, ret>>

DissertationTables ==
    /\ call = "build_tables:dissertation"
    /\ \E returncode \in ExitCodes :
        /\ out' = RunTableScript(out, "Dissertation Tables", "Dissertation_Tables.docx",
                                 returncode)
        /\ call' = AfterScript(call, run_script(returncode))
    /\ UNCHANGED <<args, ret>>

PlainLanguageSummary ==
    /\ call = "build_tables:plain_language"
    /\ \E returncode \in ExitCodes :
        /\ out' = RunTableScript(out, "Plain Language Summary",
                                 "Plain_Language_Summary.docx", returncode)
        /\ call' = AfterScript(call, run_script(returncode))
    /\ UNCHANGED <<args, ret>>

(* return produced; manifest['artifacts']['tables'] = tables_produced *)
StoreTables ==
    /\ call = "build_tables:return"
    /\ ret' = out.produced
    /\ out' = [out EXCEPT !.manifest.tables = Some(out.produced)]
    /\ call' = "main:figures"
    /\ UNCHANGED args

(* build_figures, as far as main sees it: a list of figure names *)
BuildFigures ==
    /\ call = "main:figures"
    /\ \E skip_figures \in BOOLEAN, figures \in FigureLists :
        out' = IF skip_figures THEN out ELSE [out EXCEPT !.manifest.figures = Some(figures)]
    /\ call' = "main:webapp_json"
    /\ UNCHANGED <<args, ret>>

(* build_webapp_json, as far as main sees it: it returns, or an exception
   leaves main before the manifest is saved *)
BuildWebappJsonInMain ==
    /\ call = "main:webapp_json"
    /\ \/ /\ \E skip_webapp_json \in BOOLEAN :
                out' = IF skip_webapp_json THEN out
                       ELSE [out EXCEPT !.manifest.webapp_json = Some("produced")]
          /\ call' = "main:save"
       \/ /\ out' = out
          /\ call' = "main:raised"
    /\ UNCHANGED <<args, ret>>

SaveManifest ==
    /\ call = "main:save"
    /\ out' = [out EXCEPT !.saved = Some(out.manifest)]
    /\ call' = "main:done"
    /\ UNCHANGED <<args, ret>>

NextStage ==
    \/ StartMain
    \/ BootstrapTables
    \/ DissertationTables
    \/ PlainLanguageSummary
    \/ StoreTables
    \/ BuildFigures
    \/ BuildWebappJsonInMain
    \/ SaveManifest

SpecStage == Init /\ [][NextStage]_vars

InMain ==
    call \in {"main:figures", "main:webapp_json", "main:save", "main:raised", "main:done"}
(* build_tables has returned *)
TablesBuilt == InMain /\ ~args.skip_tables
Attempted(description) == \E i \in 1..Len(out.ran) : out.ran[i].description = description
Succeeded(description) ==
    \E i \in 1..Len(out.ran) :
        out.ran[i].description = description /\ out.ran[i].returncode = 0
DocumentIf(description, document) ==
    IF Succeeded(description) THEN <<document>> ELSE <<>>
ExpectedTables ==
    DocumentIf("Bootstrap Tables", "Bootstrap_Tables.docx")
    \o DocumentIf("Dissertation Tables", "Dissertation_Tables.docx")
    \o DocumentIf("Plain Language Summary", "Plain_Language_Summary.docx")

(* C29: build_tables runs the Dissertation Tables and Plain Language Summary
   scripts whether or not an earlier script failed or was skipped; the list
   it returns holds a document iff its script was run and exited with 0, in
   the order Bootstrap, Dissertation, Plain Language; main stores that list
   as artifacts.tables, and it is in the manifest when the manifest is
   saved. *)
C29_TablesAttemptedAndListed ==
    TablesBuilt =>
        /\ Attempted("Dissertation Tables")
        /\ Attempted("Plain Language Summary")
        /\ Attempted("Bootstrap Tables") <=> args.boot_params_exists
        /\ ret = ExpectedTables
        /\ out.manifest.tables = Some(ExpectedTables)
        /\ ~IsNone(out.saved) => out.saved.some.tables = Some(ExpectedTables)

(* Bootstrap skipped, Dissertation failed, Plain Language succeeded, and the
   saved manifest lists the summary alone *)
C29_Witness ==
    /\ call = "main:done"
    /\ ~args.skip_tables /\ ~args.boot_params_exists
    /\ out.ran = <<[description |-> "Dissertation Tables", returncode |-> 1],
                   [description |-> "Plain Language Summary", returncode |-> 0]>>
    /\ out.saved.some.tables = Some(<<"Plain_Language_Summary.docx">>)

----------------------------------------------------------------------------
(* run_python_stage.py build_webapp_json, steps 4 and 5: the transform
   module's global OUTPUTS_DIR around build_group_comparisons.
   call is the position in build_webapp_json; args holds the run's raw
   folder and which RQ4 folders exist; out holds the module global, the
   local original_outputs, the folder build_group_comparisons read from,
   its result and the files written *)

MaxRuns == 3

(* a pathlib.Path; every Path is truthy *)
Path(p) == [path |-> p]
Truthy(v) == ~IsNone(v)

(* transform-results.py: OUTPUTS_DIR = PROJECT_ROOT / "4_Model_Results" / "Outputs" *)
OUTPUTS_DIR == Path("4_Model_Results/Outputs")

RawDirs == {Path("runs/run_" \o ToString(i) \o "/raw") : i \in 1..MaxRuns}

(* the keys build_group_comparisons can return, given the folders present *)
ComparisonKeys(rq4_race_exists, rq4_mg_exists) ==
    (IF rq4_race_exists THEN {"byRace"} ELSE {})
    \cup (IF rq4_mg_exists THEN {"byFirstGen", "byPell"} ELSE {})

GroupExceptions == {"KeyError", "ValueError"}

(* the block without its finally: restored on a normal return only *)
LeaveBlockWithoutFinally(state, exit) ==
    IF exit = "return" /\ Truthy(state.original_outputs)
    THEN [state EXCEPT !.OUTPUTS_DIR = state.original_outputs]
    ELSE state

(* finally: if original_outputs: transform.OUTPUTS_DIR = original_outputs *)
LeaveBlock(state, exit) ==
    IF Truthy(state.original_outputs)
    THEN [state EXCEPT !.OUTPUTS_DIR = state.original_outputs]
    ELSE state

StartGroupComparisons ==
    /\ call = "none"
    /\ \E raw_dir \in RawDirs, rq4_race_exists \in BOOLEAN, rq4_mg_exists \in BOOLEAN :
        /\ call' = "group_comparisons:check"
        /\ args' = [raw_dir |-> raw_dir, rq4_race_exists |-> rq4_race_exists,
                    rq4_mg_exists |-> rq4_mg_exists, outputs_before |-> OUTPUTS_DIR]
        /\ ret' = None
        /\ out' = [OUTPUTS_DIR |-> OUTPUTS_DIR, original_outputs |-> None,
                   read_from |-> None, group_comparisons |-> {}, written |-> {}]

(* original_outputs = getattr(transform, 'OUTPUTS_DIR', None);
   transform.OUTPUTS_DIR = raw_dir *)
RedirectOutputs ==
    /\ call = "group_comparisons:check"
    /\ IF args.rq4_race_exists \/ args.rq4_mg_exists
       THEN /\ out' = [out EXCEPT !.original_outputs = out.OUTPUTS_DIR,
                                  !.OUTPUTS_DIR = args.raw_dir]
            /\ call' = "group_comparisons:try"
       ELSE /\ out' = out
            /\ call' = "group_comparisons:write"
    /\ UNCHANGED <<args, ret>>

BuildGroupComparisonsReturns ==
    /\ call = "group_comparisons:try"
    /\ \E group_data \in SUBSET ComparisonKeys(args.rq4_race_exists, args.rq4_mg_exists) :
        out' = LeaveBlock([out EXCEPT !.read_from = out.OUTPUTS_DIR,
                                      !.group_comparisons = group_data], "return")
    /\ call' = "group_comparisons:write"
    /\ UNCHANGED <<args, ret>>

BuildGroupComparisonsRaises ==
    /\ call = "group_comparisons:try"
    /\ \E e \in GroupExceptions :
        /\ out' = LeaveBlock([out EXCEPT !.read_from = out.OUTPUTS_DIR], "raise")
        /\ ret' = Raise(e)
    /\ call' = "group_comparisons:raised"
    /\ UNCHANGED args

WriteGroupComparisons ==
    /\ call = "group_comparisons:write"
    /\ out' = [out EXCEPT !.written = @ \cup {"groupComparisons.json"}]
    /\ call' = "variable_metadata"
    /\ UNCHANGED <<args, ret>>

WriteVariableMetadata ==
    /\ call = "variable_metadata"
    /\ out' = [out EXCEPT !.written = @ \cup {"variableMetadata.json"}]
    /\ call' = "data_metadata"
    /\ UNCHANGED <<args, ret>>

NextRedirect ==
    \/ StartGroupComparisons
    \/ RedirectOutputs
    \/ BuildGroupComparisonsReturns
    \/ BuildGroupComparisonsRaises
    \/ WriteGroupComparisons
    \/ WriteVariableMetadata

SpecRedirect == Init /\ [][NextRedirect]_vars

InWebappJson ==
    call \in {"group_comparisons:check", "group_comparisons:try", "group_comparisons:write",
              "group_comparisons:raised", "variable_metadata", "data_metadata"}
InsideBlock == call = "group_comparisons:try"
BlockWasEntered == InWebappJson /\ ~IsNone(out.original_outputs)

(* C30: OUTPUTS_DIR is the run's raw folder while build_group_comparisons
   runs, which is the folder that call reads; outside the block, before it
   and after leaving it by return or by exception, OUTPUTS_DIR has the
   value it had before build_webapp_json. *)
C30_OutputsDirRestored ==
    InWebappJson =>
        /\ InsideBlock => out.OUTPUTS_DIR = args.raw_dir
        /\ ~InsideBlock => out.OUTPUTS_DIR = args.outputs_before
        /\ ~IsNone(out.read_from) => out.read_from = args.raw_dir

(* build_group_comparisons read the raw folder, raised, and the global is
   back at its value *)
C30_Witness ==
    /\ call = "group_comparisons:raised"
    /\ out.read_from = args.raw_dir
    /\ out.original_outputs = args.outputs_before
    /\ out.OUTPUTS_DIR = args.outputs_before
    /\ out.OUTPUTS_DIR # args.raw_dir

====
